---------------------------- MODULE Spec2Model ----------------------------
(***************************************************************************)
(* A model of the MIPS32 interpreter of awesomeVM: the CP0 coprocessor     *)
(* (internal/mips/cop0.go), the instruction decoder and executor           *)
(* (internal/mips/instructions.go and the mips32 revision of it), the      *)
(* memory (internal/mips32/memory.go) and the CPU loop                     *)
(* (internal/mips/cpu.go).                                                 *)
(*                                                                         *)
(* A Go uint32 is modelled as the pair <<hi, lo>> of its two 16-bit        *)
(* halves, because TLC's integers are 32-bit signed: every operator below  *)
(* on such pairs computes what the Go operator computes on the uint32,     *)
(* wrap-around at 2^32 included.                                           *)
(***************************************************************************)
EXTENDS Integers, Sequences, FiniteSets, TLC

(***************************************************************************)
(* 32-bit words                                                            *)
(***************************************************************************)
H16 == 256 * 256

U32(hi, lo) == <<hi, lo>>

Hi(w) == w[1]

Lo(w) == w[2]

\* uint32(n) of a small non-negative Go int n (n < 2^31)
FromInt(n) == <<n \div H16, n % H16>>

\* int(w) of a word below 2^31
ToInt(w) == w[1] * H16 + w[2]

Zero32 == U32(0, 0)

RECURSIVE BitAnd(_, _)
\* a & b on non-negative integers
BitAnd(a, b) ==
    IF a = 0 \/ b = 0 THEN 0
    ELSE (a % 2) * (b % 2) + 2 * BitAnd(a \div 2, b \div 2)

\* a | b on non-negative integers
BitOr(a, b) == a + b - BitAnd(a, b)

\* a ^ b on non-negative integers
BitXor(a, b) == a + b - 2 * BitAnd(a, b)

\* x & y
And32(x, y) == <<BitAnd(x[1], y[1]), BitAnd(x[2], y[2])>>

\* x | y
Or32(x, y) == <<BitOr(x[1], y[1]), BitOr(x[2], y[2])>>

\* x ^ y
Xor32(x, y) == <<BitXor(x[1], y[1]), BitXor(x[2], y[2])>>

\* x &^ y  (Go's bit clear)
AndNot32(x, y) == <<x[1] - BitAnd(x[1], y[1]), x[2] - BitAnd(x[2], y[2])>>

\* ^x
Not32(x) == <<H16 - 1 - x[1], H16 - 1 - x[2]>>

\* x + y  (mod 2^32)
Add32(x, y) ==
    LET s == x[2] + y[2]
    IN  <<(x[1] + y[1] + (s \div H16)) % H16, s % H16>>

\* x - y  (mod 2^32)
Sub32(x, y) ==
    LET b == IF x[2] < y[2] THEN 1 ELSE 0
    IN  <<(x[1] - y[1] - b + H16) % H16, (x[2] - y[2] + H16) % H16>>

\* x < y, unsigned
Lt32(x, y) == x[1] < y[1] \/ (x[1] = y[1] /\ x[2] < y[2])

\* x <= y, unsigned
Le32(x, y) == ~Lt32(y, x)

\* x << n for 0 <= n; a count of 32 or more gives 0, as in Go
Shl32(x, n) ==
    IF n >= 32 THEN Zero32
    ELSE IF n >= 16 THEN <<(x[2] * 2^(n - 16)) % H16, 0>>
    ELSE <<(x[1] * 2^n + (x[2] \div 2^(16 - n))) % H16, (x[2] * 2^n) % H16>>

\* x >> n (logical) for 0 <= n; a count of 32 or more gives 0, as in Go
Shr32(x, n) ==
    IF n >= 32 THEN Zero32
    ELSE IF n >= 16 THEN <<0, x[1] \div 2^(n - 16)>>
    ELSE <<x[1] \div 2^n, (x[2] \div 2^n) + (x[1] % 2^n) * 2^(16 - n)>>

\* bit k of x as 0 or 1
Bit32(x, k) == IF k >= 16 THEN (x[1] \div 2^(k - 16)) % 2 ELSE (x[2] \div 2^k) % 2

(***************************************************************************)
(* CP0 constants                                                           *)
(***************************************************************************)
cop0TlbSize == 16

cp0RegIndex == 0
cp0RegRandom == 1
cp0RegEntryLo0 == 2
cp0RegEntryLo1 == 3
cp0RegContext == 4
cp0RegPageMask == 5
cp0RegWired == 6
cp0RegBadVAddr == 8
cp0RegCount == 9
cp0RegEntryHi == 10
cp0RegCompare == 11
cp0RegStatus == 12
cp0RegCause == 13
cp0RegEPC == 14
cp0RegPRId == 15
cp0RegConfig == 16
cp0RegLLAddr == 17
cp0RegWatchLo == 18
cp0RegWatchHi == 19
cp0RegXContext == 20
cp0RegErrorEPC == 30

excInt == 0
excMod == 1
excTLBL == 2
excTLBS == 3
excAdEL == 4
excAdES == 5
excSys == 8
excBp == 9
excRI == 10
excCpU == 11
excOv == 12
excTr == 13

statusIE == U32(0, 1)
statusEXL == U32(0, 2)
statusERL == U32(0, 4)
statusIMShift == 8
causeBD == U32(\H8000, 0)
causeTI == U32(\H4000, 0)
causeIV == U32(\H0080, 0)
causeIPShift == 8

(***************************************************************************)
(* CP0 state: the COP0 struct as a record                                  *)
(***************************************************************************)
\* the zero value of a TLBEntry
ZeroTLBEntry ==
    [VPN2 |-> Zero32, ASID |-> 0, G |-> FALSE,
     PFN0 |-> Zero32, C0 |-> 0, D0 |-> FALSE, V0 |-> FALSE,
     PFN1 |-> Zero32, C1 |-> 0, D1 |-> FALSE, V1 |-> FALSE,
     Mask |-> Zero32]

NewCOP0(tlbSizeArg) ==
    LET tlbSize == IF tlbSizeArg <= 0 THEN 16 ELSE tlbSizeArg
    IN  [tlb      |-> [i \in 0 .. tlbSize - 1 |-> ZeroTLBEntry],
         tlbSize  |-> tlbSize,
         index    |-> Zero32,
         random   |-> FromInt(tlbSize - 1),
         entryLo0 |-> Zero32,
         entryLo1 |-> Zero32,
         context  |-> Zero32,
         pageMask |-> Zero32,
         wired    |-> Zero32,
         badVAddr |-> Zero32,
         count    |-> Zero32,
         entryHi  |-> Zero32,
         compare  |-> Zero32,
         status   |-> Zero32,
         cause    |-> Zero32,
         epc      |-> Zero32,
         prid     |-> U32(\H0001, \H8000),
         ebase    |-> U32(\H8000, 0),
         config0  |-> U32(\H8000, 3),
         config1  |-> Shl32(And32(FromInt(tlbSize - 1), U32(0, \HF)), 25),
         lladdr   |-> Zero32,
         watchLo  |-> Zero32,
         watchHi  |-> Zero32,
         xcontext |-> Zero32,
         errorepc |-> Zero32]

(***************************************************************************)
(* COP0.Read and COP0.Write                                                *)
(***************************************************************************)
Read(c, reg, sel) ==
    CASE reg = cp0RegIndex    /\ sel = 0 -> c.index
      [] reg = cp0RegRandom   /\ sel = 0 -> c.random
      [] reg = cp0RegEntryLo0 /\ sel = 0 -> c.entryLo0
      [] reg = cp0RegEntryLo1 /\ sel = 0 -> c.entryLo1
      [] reg = cp0RegContext  /\ sel = 0 -> c.context
      [] reg = cp0RegPageMask /\ sel = 0 -> c.pageMask
      [] reg = cp0RegWired    /\ sel = 0 -> c.wired
      [] reg = cp0RegBadVAddr /\ sel = 0 -> c.badVAddr
      [] reg = cp0RegCount    /\ sel = 0 -> c.count
      [] reg = cp0RegEntryHi  /\ sel = 0 -> c.entryHi
      [] reg = cp0RegCompare  /\ sel = 0 -> c.compare
      [] reg = cp0RegStatus   /\ sel = 0 -> c.status
      [] reg = cp0RegCause    /\ sel = 0 -> c.cause
      [] reg = cp0RegEPC      /\ sel = 0 -> c.epc
      [] reg = cp0RegPRId     /\ sel = 0 -> c.prid
      [] reg = cp0RegPRId     /\ sel = 1 -> c.ebase
      [] reg = cp0RegConfig   /\ sel = 0 -> c.config0
      [] reg = cp0RegConfig   /\ sel = 1 -> c.config1
      [] reg = cp0RegLLAddr   /\ sel = 0 -> c.lladdr
      [] reg = cp0RegWatchLo  /\ sel = 0 -> c.watchLo
      [] reg = cp0RegWatchHi  /\ sel = 0 -> c.watchHi
      [] reg = cp0RegXContext /\ sel = 0 -> c.xcontext
      [] reg = cp0RegErrorEPC /\ sel = 0 -> c.errorepc
      [] OTHER -> Zero32

\* an Index write that stores val[5:0] without holding it below tlbSize
WriteIndexUnclamped(c, val) ==
    [c EXCEPT !.index = Or32(And32(c.index, U32(\H8000, 0)), And32(val, U32(0, \H3F)))]

\* an Index write that clears the P bit
WriteIndexClearsP(c, val) ==
    LET idx == And32(val, U32(0, \H3F))
        clamped == IF ToInt(idx) >= c.tlbSize THEN FromInt(c.tlbSize - 1) ELSE idx
    IN  [c EXCEPT !.index = clamped]

\* case cp0RegIndex: the P bit is preserved, the index clamped below tlbSize
WriteIndex(c, val) ==
    LET p   == And32(c.index, U32(\H8000, 0))
        idx == And32(val, U32(0, \H3F))
        clamped == IF ToInt(idx) >= c.tlbSize THEN FromInt(c.tlbSize - 1) ELSE idx
    IN  [c EXCEPT !.index = Or32(p, clamped)]

\* case cp0RegRandom: clamped into [wired, tlbSize-1]
WriteRandom(c, val) ==
    LET v1   == IF Lt32(val, c.wired) THEN c.wired ELSE val
        rmax == FromInt(c.tlbSize - 1)
        v2   == IF Lt32(rmax, v1) THEN rmax ELSE v1
    IN  [c EXCEPT !.random = v2]

\* a Wired write that leaves Random where it is
WriteWiredOnly(c, val) ==
    LET w0    == And32(val, U32(0, \H3F))
        wired == IF Le32(FromInt(c.tlbSize), w0) THEN FromInt(c.tlbSize - 1) ELSE w0
    IN  [c EXCEPT !.wired = wired]

\* a Wired write that always resets Random to tlbSize-1
WriteWiredResets(c, val) ==
    LET w0    == And32(val, U32(0, \H3F))
        wired == IF Le32(FromInt(c.tlbSize), w0) THEN FromInt(c.tlbSize - 1) ELSE w0
    IN  [c EXCEPT !.wired = wired, !.random = FromInt(c.tlbSize - 1)]

\* case cp0RegWired: low 6 bits, clamped below tlbSize; Random re-ranged
WriteWired(c, val) ==
    LET w0    == And32(val, U32(0, \H3F))
        wired == IF Le32(FromInt(c.tlbSize), w0) THEN FromInt(c.tlbSize - 1) ELSE w0
        rmax  == FromInt(c.tlbSize - 1)
    IN  [c EXCEPT !.wired = wired,
                  !.random = IF Lt32(c.random, wired) \/ Lt32(rmax, c.random)
                             THEN rmax ELSE c.random]

\* case cp0RegCompare: also clears TI and IP7 in Cause
WriteCompare(c, val) ==
    [c EXCEPT !.compare = val,
              !.cause = AndNot32(c.cause, Or32(causeTI, Shl32(U32(0, 1), causeIPShift + 7)))]

\* a Status write that keeps only the IE, EXL, ERL and IM bits of val
WriteStatusMasked(c, val) == [c EXCEPT !.status = And32(val, U32(0, \HFF07))]

\* case cp0RegStatus: the register is replaced by the value as given
WriteStatus(c, val) == [c EXCEPT !.status = val]

\* case cp0RegCause: IV and the software IP0/IP1 come from val, the rest is kept
WriteCause(c, val) ==
    LET c1 == IF And32(val, causeIV) # Zero32
              THEN Or32(c.cause, causeIV) ELSE AndNot32(c.cause, causeIV)
        sw == And32(Shr32(val, causeIPShift), U32(0, 3))
        c2 == AndNot32(c1, Shl32(U32(0, 3), causeIPShift))
    IN  [c EXCEPT !.cause = Or32(c2, Shl32(sw, causeIPShift))]

\* a Config0 write that keeps only two bits of K0
WriteConfig0TwoBits(c, val) ==
    LET m == And32(c.config0, Shl32(U32(0, 1), 31))
    IN  [c EXCEPT !.config0 = Or32(m, And32(val, U32(0, 3)))]

\* case cp0RegConfig, sel 0: K0 from val, the M bit preserved
WriteConfig0(c, val) ==
    LET m == And32(c.config0, Shl32(U32(0, 1), 31))
    IN  [c EXCEPT !.config0 = Or32(m, And32(val, U32(0, 7)))]

Write(c, reg, sel, val) ==
    CASE reg = cp0RegIndex    /\ sel = 0 -> WriteIndex(c, val)
      [] reg = cp0RegRandom   /\ sel = 0 -> WriteRandom(c, val)
      [] reg = cp0RegEntryLo0 /\ sel = 0 -> [c EXCEPT !.entryLo0 = And32(val, U32(\H3FFF, \HFFFF))]
      [] reg = cp0RegEntryLo1 /\ sel = 0 -> [c EXCEPT !.entryLo1 = And32(val, U32(\H3FFF, \HFFFF))]
      [] reg = cp0RegContext  /\ sel = 0 -> [c EXCEPT !.context = val]
      [] reg = cp0RegPageMask /\ sel = 0 -> [c EXCEPT !.pageMask = And32(val, U32(\H01FF, \HE000))]
      [] reg = cp0RegWired    /\ sel = 0 -> WriteWired(c, val)
      [] reg = cp0RegBadVAddr /\ sel = 0 -> c
      [] reg = cp0RegCount    /\ sel = 0 -> [c EXCEPT !.count = val]
      [] reg = cp0RegEntryHi  /\ sel = 0 -> [c EXCEPT !.entryHi = And32(val, U32(\HFFFF, \HE0FF))]
      [] reg = cp0RegCompare  /\ sel = 0 -> WriteCompare(c, val)
      [] reg = cp0RegStatus   /\ sel = 0 -> WriteStatus(c, val)
      [] reg = cp0RegCause    /\ sel = 0 -> WriteCause(c, val)
      [] reg = cp0RegEPC      /\ sel = 0 -> [c EXCEPT !.epc = val]
      [] reg = cp0RegPRId     /\ sel = 0 -> c
      [] reg = cp0RegPRId     /\ sel = 1 -> [c EXCEPT !.ebase = val]
      [] reg = cp0RegConfig   /\ sel = 0 -> WriteConfig0(c, val)
      [] reg = cp0RegConfig   /\ sel = 1 -> c
      [] reg = cp0RegLLAddr   /\ sel = 0 -> [c EXCEPT !.lladdr = val]
      [] reg = cp0RegWatchLo  /\ sel = 0 -> [c EXCEPT !.watchLo = val]
      [] reg = cp0RegWatchHi  /\ sel = 0 -> [c EXCEPT !.watchHi = val]
      [] reg = cp0RegXContext /\ sel = 0 -> [c EXCEPT !.xcontext = val]
      [] reg = cp0RegErrorEPC /\ sel = 0 -> [c EXCEPT !.errorepc = val]
      [] OTHER -> c

(***************************************************************************)
(* Random, the timer and the interrupt lines                               *)
(***************************************************************************)
\* a Step that wraps one step late: at Random = Wired it still decrements
StepLateWrap(c) ==
    IF c.tlbSize <= 0 THEN c
    ELSE LET r2 == Sub32(c.random, U32(0, 1))
         IN  [c EXCEPT !.random = IF Lt32(c.random, c.wired) \/ c.random = Zero32
                                  THEN FromInt(c.tlbSize - 1) ELSE r2]

Step(c) ==
    IF c.tlbSize <= 0 THEN c
    ELSE LET r1 == IF c.random = U32(\HFFFF, \HFFFF)
                   THEN FromInt(c.tlbSize - 1) ELSE c.random
         IN  IF Le32(r1, c.wired)
             THEN [c EXCEPT !.random = FromInt(c.tlbSize - 1)]
             ELSE LET r2 == Sub32(r1, U32(0, 1))
                  IN  [c EXCEPT !.random = IF Lt32(r2, c.wired)
                                           THEN FromInt(c.tlbSize - 1) ELSE r2]

\* a Tick that also fires when the increment steps over Compare
TickCrossing(c, cycles) ==
    LET count == Add32(c.count, cycles)
    IN  [c EXCEPT !.count = count,
                  !.cause = IF c.compare # Zero32
                               /\ Lt32(c.count, c.compare) /\ Le32(c.compare, count)
                            THEN Or32(Or32(c.cause, causeTI),
                                      Shl32(U32(0, 1), causeIPShift + 7))
                            ELSE c.cause]

Tick(c, cycles) ==
    LET count == Add32(c.count, cycles)
    IN  [c EXCEPT !.count = count,
                  !.cause = IF c.compare # Zero32 /\ count = c.compare
                            THEN Or32(Or32(c.cause, causeTI),
                                      Shl32(U32(0, 1), causeIPShift + 7))
                            ELSE c.cause]

\* a SetHWInterrupt that accepts every line 2..7
SetHWInterruptLine7(c, line, pending) ==
    IF line < 2 \/ line > 7 THEN c
    ELSE LET bit == Shl32(U32(0, 1), causeIPShift + line)
         IN  [c EXCEPT !.cause = IF pending THEN Or32(c.cause, bit)
                                 ELSE AndNot32(c.cause, bit)]

SetHWInterrupt(c, line, pending) ==
    IF line < 2 \/ line > 6 THEN c
    ELSE LET bit == Shl32(U32(0, 1), causeIPShift + line)
         IN  [c EXCEPT !.cause = IF pending THEN Or32(c.cause, bit)
                                 ELSE AndNot32(c.cause, bit)]

SetSWInterrupt(c, n, pending) ==
    IF n < 0 \/ n > 1 THEN c
    ELSE LET bit == Shl32(U32(0, 1), causeIPShift + n)
         IN  [c EXCEPT !.cause = IF pending THEN Or32(c.cause, bit)
                                 ELSE AndNot32(c.cause, bit)]

\* a PendingInterrupt that does not look at EXL and ERL
PendingInterruptNoLevel(c) ==
    IF And32(c.status, statusIE) = Zero32
    THEN FALSE
    ELSE LET ip == And32(Shr32(c.cause, causeIPShift), U32(0, \HFF))
             im == And32(Shr32(c.status, statusIMShift), U32(0, \HFF))
         IN  And32(ip, im) # Zero32

PendingInterrupt(c) ==
    IF And32(c.status, statusIE) = Zero32
       \/ And32(c.status, Or32(statusEXL, statusERL)) # Zero32
    THEN FALSE
    ELSE LET ip == And32(Shr32(c.cause, causeIPShift), U32(0, \HFF))
             im == And32(Shr32(c.status, statusIMShift), U32(0, \HFF))
         IN  And32(ip, im) # Zero32

(***************************************************************************)
(* Exceptions                                                              *)
(***************************************************************************)
\* RaiseException that leaves EPC alone when EXL is already set
RaiseExceptionStateKeepEPC(c, excCode, pc, inDelaySlot) ==
    LET cause1 == Or32(AndNot32(c.cause, U32(0, \H7C)),
                       Shl32(FromInt(BitAnd(excCode, \H1F)), 2))
        nested == And32(c.status, statusEXL) # Zero32
    IN  [c EXCEPT !.cause  = IF nested THEN cause1
                             ELSE IF inDelaySlot THEN Or32(cause1, causeBD)
                             ELSE AndNot32(cause1, causeBD),
                  !.epc    = IF nested THEN c.epc
                             ELSE IF inDelaySlot THEN Sub32(pc, U32(0, 4)) ELSE pc,
                  !.status = Or32(c.status, statusEXL)]

\* RaiseException that also masks interrupts by clearing Status.IE
RaiseExceptionStateClearsIE(c, excCode, pc, inDelaySlot) ==
    LET cause1 == Or32(AndNot32(c.cause, U32(0, \H7C)),
                       Shl32(FromInt(BitAnd(excCode, \H1F)), 2))
    IN  [c EXCEPT !.cause  = IF inDelaySlot THEN Or32(cause1, causeBD)
                             ELSE AndNot32(cause1, causeBD),
                  !.epc    = IF inDelaySlot THEN Sub32(pc, U32(0, 4)) ELSE pc,
                  !.status = Or32(AndNot32(c.status, statusIE), statusEXL)]

\* the CP0 state RaiseException leaves (excCode is a uint8)
RaiseExceptionState(c, excCode, pc, inDelaySlot) ==
    LET cause1 == Or32(AndNot32(c.cause, U32(0, \H7C)),
                       Shl32(FromInt(BitAnd(excCode, \H1F)), 2))
    IN  [c EXCEPT !.cause  = IF inDelaySlot THEN Or32(cause1, causeBD)
                             ELSE AndNot32(cause1, causeBD),
                  !.epc    = IF inDelaySlot THEN Sub32(pc, U32(0, 4)) ELSE pc,
                  !.status = Or32(c.status, statusEXL)]

\* a vector computation that ignores EBase
ExceptionVectorBootOnly(c, excCode) ==
    IF excCode = excInt /\ And32(c.cause, causeIV) # Zero32
    THEN U32(\HBFC0, \H0200) ELSE U32(\HBFC0, \H0180)

\* the vector RaiseException returns; c is the state RaiseException has left
ExceptionVector(c, excCode) ==
    LET baseBEV == U32(\HBFC0, 0)
        special == excCode = excInt /\ And32(c.cause, causeIV) # Zero32
        vec0    == IF special THEN Add32(baseBEV, U32(0, \H200))
                   ELSE Add32(baseBEV, U32(0, \H180))
    IN  IF Le32(U32(\H8000, 0), c.ebase) /\ Lt32(c.ebase, U32(\HBFC0, 0))
        THEN IF special THEN Add32(c.ebase, U32(0, \H200))
             ELSE Add32(c.ebase, U32(0, \H180))
        ELSE vec0

\* RaiseException: the new CP0 state and the returned vector
RaiseException(c, excCode, pc, inDelaySlot) ==
    LET c1 == RaiseExceptionState(c, excCode, pc, inDelaySlot)
    IN  [cp0 |-> c1, vec |-> ExceptionVector(c1, excCode)]

\* an ERET that clears EXL on the ERL path too
ERETClearsBoth(c) ==
    LET c1 == [c EXCEPT !.cause = AndNot32(c.cause, causeBD)]
    IN  IF And32(c1.status, statusERL) # Zero32
        THEN [cp0 |-> [c1 EXCEPT !.status = AndNot32(c1.status, Or32(statusERL, statusEXL))],
              pc  |-> c1.errorepc]
        ELSE [cp0 |-> [c1 EXCEPT !.status = AndNot32(c1.status, statusEXL)],
              pc  |-> c1.epc]

\* ERET: the new CP0 state and the returned PC
ERET(c) ==
    LET c1 == [c EXCEPT !.cause = AndNot32(c.cause, causeBD)]
    IN  IF And32(c1.status, statusERL) # Zero32
        THEN [cp0 |-> [c1 EXCEPT !.status = AndNot32(c1.status, statusERL)],
              pc  |-> c1.errorepc]
        ELSE [cp0 |-> [c1 EXCEPT !.status = AndNot32(c1.status, statusEXL)],
              pc  |-> c1.epc]


(***************************************************************************)
(* TLB operations                                                          *)
(***************************************************************************)
\* the entry writeTLBAt stores, decoded from EntryHi/EntryLo0/EntryLo1/PageMask
DecodeTLBEntry(c) ==
    LET lo0 == And32(c.entryLo0, U32(\H3FFF, \HFFFF))
        lo1 == And32(c.entryLo1, U32(\H3FFF, \HFFFF))
    IN  [VPN2 |-> And32(c.entryHi, U32(\HFFFF, \HE000)),
         ASID |-> Lo(And32(c.entryHi, U32(0, \HFF))),
         Mask |-> And32(c.pageMask, U32(\H01FF, \HE000)),
         PFN0 |-> And32(Shr32(lo0, 6), U32(\H0FFF, \HFFC0)),
         C0   |-> Lo(And32(Shr32(lo0, 3), U32(0, 7))),
         D0   |-> And32(lo0, U32(0, 4)) # Zero32,
         V0   |-> And32(lo0, U32(0, 2)) # Zero32,
         PFN1 |-> And32(Shr32(lo1, 6), U32(\H0FFF, \HFFC0)),
         C1   |-> Lo(And32(Shr32(lo1, 3), U32(0, 7))),
         D1   |-> And32(lo1, U32(0, 4)) # Zero32,
         V1   |-> And32(lo1, U32(0, 2)) # Zero32,
         G    |-> And32(lo0, U32(0, 1)) # Zero32 /\ And32(lo1, U32(0, 1)) # Zero32]

writeTLBAt(c, idx) == [c EXCEPT !.tlb[idx] = DecodeTLBEntry(c)]

\* the positions whose entry matches EntryHi, as TLBP's loop tests them
TLBMatches(c) ==
    LET vpn2 == And32(c.entryHi, U32(\HFFFF, \HE000))
        asid == Lo(And32(c.entryHi, U32(0, \HFF)))
    IN  {i \in 0 .. c.tlbSize - 1 :
            c.tlb[i].VPN2 = vpn2 /\ (c.tlb[i].G \/ c.tlb[i].ASID = asid)}

\* the smallest element of a non-empty set of integers
SetMin(S) == CHOOSE m \in S : \A n \in S : m <= n

\* the largest element of a non-empty set of integers
SetMax(S) == CHOOSE m \in S : \A n \in S : n <= m

\* a probe that reports the last matching position instead of the first
TLBPLastMatch(c) ==
    IF TLBMatches(c) # {}
    THEN [c EXCEPT !.index = And32(FromInt(SetMax(TLBMatches(c))), U32(0, \H3F))]
    ELSE [c EXCEPT !.index = U32(\H8000, 0)]

TLBP(c) ==
    IF TLBMatches(c) # {}
    THEN [c EXCEPT !.index = And32(FromInt(SetMin(TLBMatches(c))), U32(0, \H3F))]
    ELSE [c EXCEPT !.index = U32(\H8000, 0)]

\* EntryLo0/EntryLo1 as TLBR packs them from one half of an entry
PackEntryLo(pfn, cattr, d, v, g) ==
    LET l0 == And32(pfn, U32(\H0FFF, \HFFC0))
        l1 == Or32(l0, Shl32(FromInt(BitAnd(cattr, 7)), 3))
        l2 == IF d THEN Or32(l1, U32(0, 4)) ELSE l1
        l3 == IF v THEN Or32(l2, U32(0, 2)) ELSE l2
    IN  IF g THEN Or32(l3, U32(0, 1)) ELSE l3

TLBR(c) ==
    IF And32(c.index, U32(\H8000, 0)) # Zero32 THEN c
    ELSE LET idx == ToInt(And32(c.index, U32(0, \H3F)))
         IN  IF idx < 0 \/ idx >= c.tlbSize THEN c
             ELSE LET e == c.tlb[idx]
                  IN  [c EXCEPT
                         !.entryHi  = Or32(And32(e.VPN2, U32(\HFFFF, \HE000)), FromInt(e.ASID)),
                         !.pageMask = And32(e.Mask, U32(\H01FF, \HE000)),
                         !.entryLo0 = PackEntryLo(e.PFN0, e.C0, e.D0, e.V0, e.G),
                         !.entryLo1 = PackEntryLo(e.PFN1, e.C1, e.D1, e.V1, e.G)]

TLBWI(c) ==
    IF And32(c.index, U32(\H8000, 0)) # Zero32 THEN c
    ELSE LET idx == ToInt(And32(c.index, U32(0, \H3F)))
         IN  IF idx < 0 \/ idx >= c.tlbSize THEN c ELSE writeTLBAt(c, idx)

\* the position TLBWR writes: Random's low 6 bits clamped into [wired, tlbSize-1]
TLBWRIndex(c) ==
    LET i0 == ToInt(And32(c.random, U32(0, \H3F)))
        i1 == IF i0 < ToInt(c.wired) THEN ToInt(c.wired) ELSE i0
    IN  IF i1 >= c.tlbSize THEN c.tlbSize - 1 ELSE i1

\* a TLBWR that steps Random before it writes
TLBWRStepFirst(c) ==
    IF c.tlbSize <= 0 THEN c
    ELSE writeTLBAt(Step(c), TLBWRIndex(Step(c)))

TLBWR(c) ==
    IF c.tlbSize <= 0 THEN c
    ELSE Step(writeTLBAt(c, TLBWRIndex(c)))


(***************************************************************************)
(* Signed 32-bit arithmetic on words (Go's int32 view of a uint32)         *)
(***************************************************************************)
\* int32(x) < 0
IsNeg32(x) == x[1] >= 32768

\* int32(x) > 0
IsPos32(x) == ~IsNeg32(x) /\ x # Zero32

\* -x (mod 2^32)
Neg32(x) == Sub32(Zero32, x)

\* int32(x) < int32(y)
SLt32(x, y) == IF IsNeg32(x) # IsNeg32(y) THEN IsNeg32(x) ELSE Lt32(x, y)

\* uint32(int32(x) >> s), the arithmetic shift
Sra32(x, s) == IF IsNeg32(x) THEN Not32(Shr32(Not32(x), s)) ELSE Shr32(x, s)

\* the product of two 16-bit numbers as a word
Mul16(a, b) ==
    LET q == (a \div 256) * b
        t == (a % 256) * b + (q % 256) * 256
    IN  <<(q \div 256) + (t \div H16), t % H16>>

\* uint64(x) * uint64(y) as [hi, lo], the high and the low 32 bits
UMul64(x, y) ==
    LET p00 == Mul16(x[2], y[2])
        p01 == Mul16(x[2], y[1])
        p10 == Mul16(x[1], y[2])
        p11 == Mul16(x[1], y[1])
        t1  == p00[1] + p01[2] + p10[2]
        t2  == p01[1] + p10[1] + p11[2] + (t1 \div H16)
        t3  == p11[1] + (t2 \div H16)
    IN  [hi |-> <<t3 % H16, t2 % H16>>, lo |-> <<t1 % H16, p00[2]>>]

\* int64(int32(x)) * int64(int32(y)) as [hi, lo]
SMul64(x, y) ==
    LET u  == UMul64(x, y)
        h1 == IF IsNeg32(x) THEN Sub32(u.hi, y) ELSE u.hi
        h2 == IF IsNeg32(y) THEN Sub32(h1, x) ELSE h1
    IN  [hi |-> h2, lo |-> u.lo]

\* one step of binary long division of n by d # 0 at bit k, on st = [q, r]
UDivStep(n, d, k, st) ==
    LET r2 == Or32(Shl32(st.r, 1), U32(0, Bit32(n, k)))
        ge == Bit32(st.r, 31) = 1 \/ Le32(d, r2)
    IN  [q |-> IF ge THEN Or32(st.q, Shl32(U32(0, 1), k)) ELSE st.q,
         r |-> IF ge THEN Sub32(r2, d) ELSE r2]

RECURSIVE UDivBits(_, _, _, _)
\* binary long division of n by d # 0, from bit k down to bit 0
UDivBits(n, d, k, st) ==
    IF k < 0 THEN st
    ELSE CHOOSE res \in {UDivBits(n, d, k - 1, s2) : s2 \in {UDivStep(n, d, k, st)}} : TRUE

\* x / y and x % y on uint32, y # 0
UDivMod(x, y) == UDivBits(x, y, 31, [q |-> Zero32, r |-> Zero32])

\* x / y and x % y on int32, y # 0: Go truncates towards zero
SDivMod(x, y) ==
    LET ax == IF IsNeg32(x) THEN Neg32(x) ELSE x
        ay == IF IsNeg32(y) THEN Neg32(y) ELSE y
        u  == UDivMod(ax, ay)
    IN  [q |-> IF IsNeg32(x) # IsNeg32(y) THEN Neg32(u.q) ELSE u.q,
         r |-> IF IsNeg32(x) THEN Neg32(u.r) ELSE u.r]

(***************************************************************************)
(* utils.CheckAdditionOverflow / CheckSubtractionOverflow at T = int32     *)
(***************************************************************************)
CheckAdditionOverflow(a, b, sum) ==
    \/ (IsPos32(a) /\ IsPos32(b) /\ IsNeg32(sum))
    \/ (IsNeg32(a) /\ IsNeg32(b) /\ IsPos32(sum))

CheckSubtractionOverflow(a, b, diff) ==
    \/ (IsNeg32(a) /\ IsPos32(b) /\ IsPos32(diff))
    \/ (IsPos32(a) /\ IsNeg32(b) /\ IsNeg32(diff))

(***************************************************************************)
(* Instruction decode                                                      *)
(***************************************************************************)
\* (instr >> shift) & mask for a mask below 2^16
Field(instr, shift, mask) == Lo(And32(Shr32(instr, shift), U32(0, mask)))

\* an R-type decode that takes rd from a 4-bit slice
RTypeDecodeNarrowRd(instr) ==
    [form   |-> "R",
     Opcode |-> Field(instr, 26, \H3F),
     Rs     |-> Field(instr, 21, \H1F),
     Rt     |-> Field(instr, 16, \H1F),
     Rd     |-> Field(instr, 11, \HF),
     Shamt  |-> Field(instr, 6, \H1F),
     Funct  |-> Field(instr, 0, \H3F)]

RTypeDecode(instr) ==
    [form   |-> "R",
     Opcode |-> Field(instr, 26, \H3F),
     Rs     |-> Field(instr, 21, \H1F),
     Rt     |-> Field(instr, 16, \H1F),
     Rd     |-> Field(instr, 11, \H1F),
     Shamt  |-> Field(instr, 6, \H1F),
     Funct  |-> Field(instr, 0, \H3F)]

ITypeDecode(instr) ==
    [form      |-> "I",
     Opcode    |-> Field(instr, 26, \H3F),
     Rs        |-> Field(instr, 21, \H1F),
     Rt        |-> Field(instr, 16, \H1F),
     Immediate |-> Field(instr, 0, \HFFFF)]

JTypeDecode(instr) ==
    [form   |-> "J",
     Opcode |-> Field(instr, 26, \H3F),
     Addr   |-> And32(instr, U32(\H03FF, \HFFFF))]

COP0Decode(instr) ==
    [form   |-> "COP0",
     Opcode |-> Field(instr, 26, \H3F),
     Rs     |-> Field(instr, 21, \H1F),
     Rt     |-> Field(instr, 16, \H1F),
     Rd     |-> Field(instr, 11, \H1F),
     Sel    |-> Field(instr, 0, \H7),
     Funct  |-> Field(instr, 0, \H3F)]

DecodeInstruction(instr) ==
    LET opcode == Field(instr, 26, \H3F)
    IN  IF opcode = \H10 THEN COP0Decode(instr)
        ELSE IF opcode = \H0 THEN RTypeDecode(instr)
        ELSE IF opcode = \H2 \/ opcode = \H3 THEN JTypeDecode(instr)
        ELSE ITypeDecode(instr)


(***************************************************************************)
(* CPU state: the CPU struct as a record, with the HI and LO accumulators  *)
(* the mips32 executor uses                                                *)
(***************************************************************************)
NewCPU ==
    [registers |-> [n \in 0 .. 31 |-> Zero32],
     PC        |-> Zero32,
     HI        |-> Zero32,
     LO        |-> Zero32,
     running   |-> FALSE,
     cp0       |-> NewCOP0(cop0TlbSize),
     inDelay   |-> FALSE]

GetReg(u, n) == IF n < 0 \/ n > 31 THEN Zero32 ELSE u.registers[n]

\* SetReg without the guard on register 0
SetRegNoZeroGuard(u, n, val) ==
    IF n < 0 \/ n > 31 THEN u ELSE [u EXCEPT !.registers[n] = val]

SetReg(u, n, val) ==
    IF n < 0 \/ n > 31 THEN u
    ELSE IF n = 0 THEN u
    ELSE [u EXCEPT !.registers[n] = val]

GetCP0Reg(u, reg, sel) == Read(u.cp0, reg, sel)

SetCP0Reg(u, reg, sel, val) == [u EXCEPT !.cp0 = Write(u.cp0, reg, sel, val)]

SetBadVAddr(u, addr) == [u EXCEPT !.cp0.badVAddr = addr]

Stop(u) == [u EXCEPT !.running = FALSE]

(***************************************************************************)
(* Executor.  Execute returns the CPU it leaves, the new PC (NilPC for     *)
(* Go's nil pointer) and the delay-slot flag.                              *)
(***************************************************************************)
\* the funct codes of the R-type instructions, as the executor defines them
\* (OpCodeADDU is 0x28 there), and the rs/funct codes of the COP0 instructions
OpCodeADD == 32
OpCodeADDU == 40
OpCodeAND == 36
OpCodeDIV == 26
OpCodeDIVU == 27
OpCodeJALR == 9
OpCodeJR == 8
OpCodeMFHI == 16
OpCodeMFLO == 18
OpCodeMOVN == 11
OpCodeMOVZ == 10
OpCodeMTHI == 17
OpCodeMTLO == 19
OpCodeMULT == 24
OpCodeMULTU == 25
OpCodeNOR == 39
OpCodeOR == 37
OpCodeSLL == 0
OpCodeSLLV == 4
OpCodeSLT == 42
OpCodeSLTU == 43
OpCodeSRA == 3
OpCodeSRAV == 7
OpCodeSRL == 2
OpCodeSRLV == 6
OpCodeSUB == 34
OpCodeSUBU == 35
OpCodeTEQ == 52
OpCodeTGE == 48
OpCodeTGEU == 49
OpCodeTLT == 50
OpCodeTLTU == 51
OpCodeTNE == 54
OpCodeXOR == 38

COP0Funct_MFC0 == 0
COP0Funct_MTC0 == 4
COP0Funct_ERET == 24
COP0Funct_TLBP == 8
COP0Funct_TLBR == 1
COP0Funct_TLBWI == 2
COP0Funct_TLBWR == 6
NilPC == <<>>

SomePC(pc) == <<pc>>

\* return nil, false
Fallthrough(u) == [cpu |-> u, nextPC |-> NilPC, delaySlot |-> FALSE]

\* cpu.SetReg(rd, val); return nil, false
WriteRd(u, rd, val) == Fallthrough(SetReg(u, rd, val))

\* the handler's exception path: vec := RaiseException(code, PC, inDelay);
\* cpu.PC = vec; cpu.inDelay = false; return nil, false
RaiseInHandler(u, excCode) ==
    LET r == RaiseException(u.cp0, excCode, u.PC, u.inDelay)
    IN  Fallthrough([u EXCEPT !.cp0 = r.cp0, !.PC = r.vec, !.inDelay = FALSE])

\* a trap instruction: raise Tr when its comparison holds
TrapIf(u, cond) == IF cond THEN RaiseInHandler(u, excTr) ELSE Fallthrough(u)

\* the SLLV shift amount: the handler masks GPR[rs] with 0xF
SLLVShift(rsVal) == Lo(And32(rsVal, U32(0, \HF)))

RTypeExecute(ri, u) ==
    LET funct == ri.Funct
        rs    == GetReg(u, ri.Rs)
        rt    == GetReg(u, ri.Rt)
    IN  CASE funct = OpCodeADD ->
               IF CheckAdditionOverflow(rs, rt, Add32(rs, rt))
               THEN RaiseInHandler(u, excOv)
               ELSE WriteRd(u, ri.Rd, Add32(rs, rt))
          [] funct = OpCodeADDU -> WriteRd(u, ri.Rd, Add32(rs, rt))
          [] funct = OpCodeAND  -> WriteRd(u, ri.Rd, And32(rs, rt))
          [] funct = OpCodeDIV ->
               IF rt = Zero32
               THEN Fallthrough([u EXCEPT !.LO = Zero32, !.HI = Zero32])
               ELSE Fallthrough([u EXCEPT !.LO = SDivMod(rs, rt).q,
                                          !.HI = SDivMod(rs, rt).r])
          [] funct = OpCodeDIVU ->
               IF rt = Zero32
               THEN Fallthrough([u EXCEPT !.LO = Zero32, !.HI = Zero32])
               ELSE Fallthrough([u EXCEPT !.LO = UDivMod(rs, rt).q,
                                          !.HI = UDivMod(rs, rt).r])
          [] funct = OpCodeJALR ->
               [cpu       |-> IF ri.Rd # 0
                              THEN SetReg(u, ri.Rd, Add32(u.PC, U32(0, 8))) ELSE u,
                nextPC    |-> SomePC(rs),
                delaySlot |-> TRUE]
          [] funct = OpCodeJR ->
               [cpu |-> u, nextPC |-> SomePC(rs), delaySlot |-> TRUE]
          [] funct = OpCodeMFHI -> WriteRd(u, ri.Rd, u.HI)
          [] funct = OpCodeMFLO -> WriteRd(u, ri.Rd, u.LO)
          [] funct = OpCodeMOVN ->
               IF rt # Zero32 THEN WriteRd(u, ri.Rd, rs) ELSE Fallthrough(u)
          [] funct = OpCodeMOVZ ->
               IF rt = Zero32 THEN WriteRd(u, ri.Rd, rs) ELSE Fallthrough(u)
          [] funct = OpCodeMTHI -> Fallthrough([u EXCEPT !.HI = rs])
          [] funct = OpCodeMTLO -> Fallthrough([u EXCEPT !.LO = rs])
          [] funct = OpCodeMULT ->
               Fallthrough([u EXCEPT !.LO = SMul64(rs, rt).lo, !.HI = SMul64(rs, rt).hi])
          [] funct = OpCodeMULTU ->
               Fallthrough([u EXCEPT !.LO = UMul64(rs, rt).lo, !.HI = UMul64(rs, rt).hi])
          [] funct = OpCodeNOR  -> WriteRd(u, ri.Rd, Not32(Or32(rs, rt)))
          [] funct = OpCodeOR   -> WriteRd(u, ri.Rd, Or32(rs, rt))
          [] funct = OpCodeSLL  -> WriteRd(u, ri.Rd, Shl32(rt, ri.Shamt))
          [] funct = OpCodeSLLV -> WriteRd(u, ri.Rd, Shl32(rt, SLLVShift(rs)))
          [] funct = OpCodeSLT  ->
               WriteRd(u, ri.Rd, IF SLt32(rs, rt) THEN U32(0, 1) ELSE Zero32)
          [] funct = OpCodeSLTU ->
               WriteRd(u, ri.Rd, IF Lt32(rs, rt) THEN U32(0, 1) ELSE Zero32)
          [] funct = OpCodeSRA  -> WriteRd(u, ri.Rd, Sra32(rt, BitAnd(ri.Shamt, \H1F)))
          [] funct = OpCodeSRAV -> WriteRd(u, ri.Rd, Sra32(rt, Lo(And32(rs, U32(0, \H1F)))))
          [] funct = OpCodeSRL  -> WriteRd(u, ri.Rd, Shr32(rt, BitAnd(ri.Shamt, \H1F)))
          [] funct = OpCodeSRLV -> WriteRd(u, ri.Rd, Shr32(rt, Lo(And32(rs, U32(0, \H1F)))))
          [] funct = OpCodeSUB ->
               IF CheckSubtractionOverflow(rs, rt, Sub32(rs, rt))
               THEN RaiseInHandler(u, excOv)
               ELSE WriteRd(u, ri.Rd, Sub32(rs, rt))
          [] funct = OpCodeSUBU -> WriteRd(u, ri.Rd, Sub32(rs, rt))
          [] funct = OpCodeTEQ  -> TrapIf(u, rs = rt)
          [] funct = OpCodeTGE  -> TrapIf(u, ~SLt32(rs, rt))
          [] funct = OpCodeTGEU -> TrapIf(u, ~Lt32(rs, rt))
          [] funct = OpCodeTLT  -> TrapIf(u, SLt32(rs, rt))
          [] funct = OpCodeTLTU -> TrapIf(u, Lt32(rs, rt))
          [] funct = OpCodeTNE  -> TrapIf(u, rs # rt)
          [] funct = OpCodeXOR  -> WriteRd(u, ri.Rd, Xor32(rs, rt))
          [] OTHER -> Fallthrough(u)

ITypeExecute(ii, u) == Fallthrough(u)

JTypeExecute(ji, u) == Fallthrough(u)

COP0Execute(ci, u) ==
    CASE ci.Rs = COP0Funct_MFC0 ->
           Fallthrough(SetReg(u, ci.Rt, GetCP0Reg(u, ci.Rd, ci.Sel)))
      [] ci.Rs = COP0Funct_MTC0 ->
           Fallthrough(SetCP0Reg(u, ci.Rd, ci.Sel, GetReg(u, ci.Rt)))
      [] ci.Rs = \H10 ->
           (CASE ci.Funct = COP0Funct_ERET ->
                   [cpu       |-> [u EXCEPT !.cp0 = ERET(u.cp0).cp0],
                    nextPC    |-> SomePC(ERET(u.cp0).pc),
                    delaySlot |-> FALSE]
              [] ci.Funct = COP0Funct_TLBP  -> Fallthrough([u EXCEPT !.cp0 = TLBP(u.cp0)])
              [] ci.Funct = COP0Funct_TLBR  -> Fallthrough([u EXCEPT !.cp0 = TLBR(u.cp0)])
              [] ci.Funct = COP0Funct_TLBWI -> Fallthrough([u EXCEPT !.cp0 = TLBWI(u.cp0)])
              [] ci.Funct = COP0Funct_TLBWR -> Fallthrough([u EXCEPT !.cp0 = TLBWR(u.cp0)])
              [] OTHER -> Fallthrough(u))
      [] OTHER -> Fallthrough(u)

\* dInstr.Execute(cpu): dispatch on the decoded form
Execute(d, u) ==
    CASE d.form = "R"    -> RTypeExecute(d, u)
      [] d.form = "I"    -> ITypeExecute(d, u)
      [] d.form = "J"    -> JTypeExecute(d, u)
      [] d.form = "COP0" -> COP0Execute(d, u)


(***************************************************************************)
(* Memory (internal/mips32/memory.go): Data is the byte array, indexed     *)
(* from 0                                                                  *)
(***************************************************************************)
NewMemory(size) == [Data |-> [a \in 0 .. size - 1 |-> 0]]

\* len(m.Data) as a uint32
MemLen(m) == FromInt(Cardinality(DOMAIN m.Data))

isAligned(m, address) == Lo(address) % 4 = 0

isAddressInRange(m, address) == Lt32(Add32(address, U32(0, 3)), MemLen(m))

\* the index expression m.Data[address + k] is inside the slice
IndexOK(m, address, k) == Lt32(Add32(address, U32(0, k)), MemLen(m))

\* LoadWord: ok = FALSE when the check rejects the address; panic = TRUE when
\* the check passes and an index is outside the slice (a run-time panic)
LoadWord(m, address) ==
    IF ~isAligned(m, address) \/ ~isAddressInRange(m, Add32(address, U32(0, 3)))
    THEN [word |-> Zero32, ok |-> FALSE, panic |-> FALSE]
    ELSE IF \E k \in 0 .. 3 : ~IndexOK(m, address, k)
         THEN [word |-> Zero32, ok |-> FALSE, panic |-> TRUE]
         ELSE LET a == ToInt(address)
              IN  [word  |-> U32(m.Data[a] * 256 + m.Data[a + 1],
                                 m.Data[a + 2] * 256 + m.Data[a + 3]),
                   ok    |-> TRUE,
                   panic |-> FALSE]

\* StoreWord: the new memory, with ok and panic as in LoadWord
StoreWord(m, address, value) ==
    IF ~isAligned(m, address) \/ ~isAddressInRange(m, Add32(address, U32(0, 3)))
    THEN [mem |-> m, ok |-> FALSE, panic |-> FALSE]
    ELSE IF \E k \in 0 .. 3 : ~IndexOK(m, address, k)
         THEN [mem |-> m, ok |-> FALSE, panic |-> TRUE]
         ELSE LET a == ToInt(address)
              IN  [mem   |-> [Data |-> [i \in DOMAIN m.Data |->
                                 CASE i = a     -> Hi(value) \div 256
                                   [] i = a + 1 -> Hi(value) % 256
                                   [] i = a + 2 -> Lo(value) \div 256
                                   [] i = a + 3 -> Lo(value) % 256
                                   [] OTHER     -> m.Data[i]]],
                   ok    |-> TRUE,
                   panic |-> FALSE]

(***************************************************************************)
(* The state machine.  cpu is the CPU with its CP0, memory the Memory it   *)
(* points to, last the most recent call with its arguments and results,    *)
(* nops the number of calls made so far, runAt the position of the         *)
(* goroutine that calls cpu.Run: "idle" before the call, "enter" at the    *)
(* first statement of Run, "store" before running.Store(true), "loop" at   *)
(* the head of the loop, "done" after Run has returned, "fatal" after      *)
(* log.Fatal, "panic" after a run-time panic has ended the process;        *)
(* stopAt the position of the thread that calls cpu.Stop: "idle" before    *)
(* the call, "done" after it; run2At the position, as runAt, of a second   *)
(* goroutine that calls cpu.Run on the same CPU.                           *)
(***************************************************************************)
VARIABLES cpu, memory, last, nops, runAt, stopAt, run2At

vars == <<cpu, memory, last, nops, runAt, stopAt, run2At>>

\* bytes of memory in the modelled machine
MemSize == 16

InitState ==
    /\ cpu = NewCPU
    /\ memory = NewMemory(MemSize)
    /\ last = [op |-> "NewCPU"]
    /\ nops = 0
    /\ runAt = "idle"
    /\ stopAt = "idle"
    /\ run2At = "idle"

(***************************************************************************)
(* Instruction words used as inputs                                        *)
(***************************************************************************)
\* opcode<<26 | rs<<21 | rt<<16 | rd<<11 | shamt<<6 | funct
EncodeR(opcode, rs, rt, rd, shamt, funct) ==
    Or32(Or32(Or32(Shl32(FromInt(opcode), 26), Shl32(FromInt(rs), 21)),
              Or32(Shl32(FromInt(rt), 16), Shl32(FromInt(rd), 11))),
         Or32(Shl32(FromInt(shamt), 6), FromInt(funct)))

\* opcode<<26 | rs<<21 | rt<<16 | imm
EncodeI(opcode, rs, rt, imm) ==
    Or32(Or32(Shl32(FromInt(opcode), 26), Shl32(FromInt(rs), 21)),
         Or32(Shl32(FromInt(rt), 16), FromInt(imm)))

\* opcode<<26 | addr
EncodeJ(opcode, addr) == Or32(Shl32(FromInt(opcode), 26), addr)

\* the funct codes whose handler writes GPR[rd]
RdWriters ==
    {OpCodeADD, OpCodeADDU, OpCodeAND, OpCodeJALR, OpCodeMFHI, OpCodeMFLO,
     OpCodeMOVN, OpCodeMOVZ, OpCodeNOR, OpCodeOR, OpCodeSLL, OpCodeSLLV,
     OpCodeSLT, OpCodeSLTU, OpCodeSRA, OpCodeSRAV, OpCodeSRL, OpCodeSRLV,
     OpCodeSUB, OpCodeSUBU, OpCodeXOR}

\* the funct codes RTypeInstruction.Execute has a case for
KnownFuncts ==
    RdWriters \cup {OpCodeDIV, OpCodeDIVU, OpCodeJR, OpCodeMTHI, OpCodeMTLO,
                    OpCodeMULT, OpCodeMULTU, OpCodeTEQ, OpCodeTGE, OpCodeTGEU,
                    OpCodeTLT, OpCodeTLTU, OpCodeTNE}

\* the funct codes COP0Instruction.Execute has a case for under rs = 0x10
KnownCOFuncts ==
    {COP0Funct_ERET, COP0Funct_TLBP, COP0Funct_TLBR, COP0Funct_TLBWI, COP0Funct_TLBWR}


(***************************************************************************)
(* The calls a host (or a test) makes on a CPU, one action each            *)
(***************************************************************************)
\* cpu.SetReg(n, val)
DoSetReg(n, val) ==
    /\ cpu' = SetReg(cpu, n, val)
    /\ last' = [op |-> "SetReg", n |-> n, val |-> val]
    /\ nops' = nops + 1
    /\ UNCHANGED <<memory, runAt, stopAt, run2At>>

\* cpu.SetCP0Reg(reg, sel, val)
DoSetCP0Reg(reg, sel, val) ==
    /\ cpu' = SetCP0Reg(cpu, reg, sel, val)
    /\ last' = [op |-> "SetCP0Reg", reg |-> reg, sel |-> sel, val |-> val]
    /\ nops' = nops + 1
    /\ UNCHANGED <<memory, runAt, stopAt, run2At>>

\* cpu.GetCP0Reg(reg, sel)
DoGetCP0Reg(reg, sel) ==
    /\ last' = [op |-> "GetCP0Reg", reg |-> reg, sel |-> sel,
                ret |-> GetCP0Reg(cpu, reg, sel)]
    /\ nops' = nops + 1
    /\ UNCHANGED <<cpu, memory, runAt, stopAt, run2At>>

\* DecodeInstruction(instr).Execute(cpu)
DoExecute(instr) ==
    LET r == Execute(DecodeInstruction(instr), cpu)
    IN  /\ cpu' = r.cpu
        /\ last' = [op |-> "Execute", instr |-> instr,
                    nextPC |-> r.nextPC, delaySlot |-> r.delaySlot]
        /\ nops' = nops + 1
        /\ UNCHANGED <<memory, runAt, stopAt, run2At>>

\* cpu.cp0.RaiseException(excCode, pc, inDelaySlot)
DoRaiseException(excCode, pc, inDelaySlot) ==
    LET r == RaiseException(cpu.cp0, excCode, pc, inDelaySlot)
    IN  /\ cpu' = [cpu EXCEPT !.cp0 = r.cp0]
        /\ last' = [op |-> "RaiseException", excCode |-> excCode, pc |-> pc,
                    inDelaySlot |-> inDelaySlot, ret |-> r.vec,
                    statusBefore |-> cpu.cp0.status]
        /\ nops' = nops + 1
        /\ UNCHANGED <<memory, runAt, stopAt, run2At>>

\* cpu.cp0.ERET()
DoERET ==
    LET r == ERET(cpu.cp0)
    IN  /\ cpu' = [cpu EXCEPT !.cp0 = r.cp0]
        /\ last' = [op |-> "ERET", ret |-> r.pc]
        /\ nops' = nops + 1
        /\ UNCHANGED <<memory, runAt, stopAt, run2At>>

\* cpu.cp0.Step()
DoStep ==
    /\ cpu' = [cpu EXCEPT !.cp0 = Step(cpu.cp0)]
    /\ last' = [op |-> "Step"]
    /\ nops' = nops + 1
    /\ UNCHANGED <<memory, runAt, stopAt, run2At>>

\* cpu.cp0.Tick(cycles)
DoTick(cycles) ==
    /\ cpu' = [cpu EXCEPT !.cp0 = Tick(cpu.cp0, cycles)]
    /\ last' = [op |-> "Tick", cycles |-> cycles]
    /\ nops' = nops + 1
    /\ UNCHANGED <<memory, runAt, stopAt, run2At>>

\* cpu.cp0.SetHWInterrupt(line, pending)
DoSetHWInterrupt(line, pending) ==
    /\ cpu' = [cpu EXCEPT !.cp0 = SetHWInterrupt(cpu.cp0, line, pending)]
    /\ last' = [op |-> "SetHWInterrupt", line |-> line, pending |-> pending]
    /\ nops' = nops + 1
    /\ UNCHANGED <<memory, runAt, stopAt, run2At>>

\* cpu.cp0.SetSWInterrupt(n, pending)
DoSetSWInterrupt(n, pending) ==
    /\ cpu' = [cpu EXCEPT !.cp0 = SetSWInterrupt(cpu.cp0, n, pending)]
    /\ last' = [op |-> "SetSWInterrupt", n |-> n, pending |-> pending]
    /\ nops' = nops + 1
    /\ UNCHANGED <<memory, runAt, stopAt, run2At>>

\* cpu.Memory.StoreWord(address, value), made before Run is called; a
\* run-time panic ends the process
DoStoreWord(address, value) ==
    LET r == StoreWord(memory, address, value)
    IN  /\ memory' = r.mem
        /\ last' = [op |-> "StoreWord", address |-> address, value |-> value,
                    ok |-> r.ok, panic |-> r.panic]
        /\ runAt' = IF r.panic THEN "panic" ELSE runAt
        /\ nops' = nops + 1
        /\ UNCHANGED <<cpu, stopAt, run2At>>

\* cpu.Memory.LoadWord(address), made before Run is called
DoLoadWord(address) ==
    LET r == LoadWord(memory, address)
    IN  /\ last' = [op |-> "LoadWord", address |-> address, word |-> r.word,
                    ok |-> r.ok, panic |-> r.panic]
        /\ runAt' = IF r.panic THEN "panic" ELSE runAt
        /\ nops' = nops + 1
        /\ UNCHANGED <<cpu, memory, stopAt, run2At>>

\* cpu.Stop()
DoStop ==
    /\ cpu' = Stop(cpu)
    /\ last' = [op |-> "Stop"]
    /\ stopAt' = "done"
    /\ nops' = nops + 1
    /\ UNCHANGED <<memory, runAt, run2At>>

\* DecodeInstruction(instr)
DoDecode(instr) ==
    /\ last' = [op |-> "Decode", instr |-> instr, d |-> DecodeInstruction(instr)]
    /\ nops' = nops + 1
    /\ UNCHANGED <<cpu, memory, runAt, stopAt, run2At>>

(***************************************************************************)
(* CPU.Run                                                                 *)
(***************************************************************************)
\* handleException: every code but Int and Sys stops the CPU
handleException(u, exc) ==
    IF exc \in {excInt, excSys} THEN u ELSE Stop(u)

\* the fetch has failed: BadVAddr, AdEL raised at PC, PC at the vector
RunFetchFault(u) ==
    LET u1 == SetBadVAddr(u, u.PC)
        r  == RaiseException(u1.cp0, excAdEL, u1.PC, u1.inDelay)
    IN  handleException([u1 EXCEPT !.cp0 = r.cp0, !.PC = r.vec, !.inDelay = FALSE],
                        excAdEL)

\* an interrupt path that leaves inDelay as it was
RunInterruptKeepDelay(u) ==
    LET r == RaiseException(u.cp0, excInt, u.PC, u.inDelay)
    IN  [u EXCEPT !.cp0 = r.cp0, !.PC = r.vec]

\* an interrupt is pending: Int raised at PC, PC at the vector
RunInterrupt(u) ==
    LET r == RaiseException(u.cp0, excInt, u.PC, u.inDelay)
    IN  [u EXCEPT !.cp0 = r.cp0, !.PC = r.vec, !.inDelay = FALSE]

\* an end of the body that advances PC and leaves inDelay as the handler
\* left it
RunAdvanceKeepDelay(r) ==
    [r.cpu EXCEPT !.PC = IF r.nextPC # NilPC THEN r.nextPC[1]
                         ELSE Add32(r.cpu.PC, U32(0, 4))]

\* the end of the body: r is what Execute returned
RunAdvance(r) ==
    [r.cpu EXCEPT !.inDelay = r.delaySlot,
                  !.PC = IF r.nextPC # NilPC THEN r.nextPC[1]
                         ELSE Add32(r.cpu.PC, U32(0, 4))]

\* the body after a successful fetch of instr; u has been ticked and stepped
RunDispatch(u, instr) ==
    IF PendingInterrupt(u.cp0)
    THEN [cpu |-> RunInterrupt(u), outcome |-> "interrupt"]
    ELSE [cpu |-> RunAdvance(Execute(DecodeInstruction(instr), u)),
          outcome |-> "executed"]

\* the body of the loop after LoadWord(PC) has returned f
RunFetched(u, f) ==
    IF f.panic THEN [cpu |-> u, outcome |-> "panic"]
    ELSE IF ~f.ok THEN [cpu |-> RunFetchFault(u), outcome |-> "fetchFault"]
    ELSE RunDispatch([u EXCEPT !.cp0 = Step(Tick(u.cp0, U32(0, 1)))], f.word)

\* one pass through the body of the loop of Run
RunStep(u, m) == RunFetched(u, LoadWord(m, u.PC))

\* the call of cpu.Run up to the head of its loop
RunStart ==
    /\ runAt = "idle"
    /\ cpu' = IF cpu.running THEN cpu ELSE [cpu EXCEPT !.running = TRUE]
    /\ runAt' = IF cpu.running THEN "fatal" ELSE "loop"
    /\ last' = [op |-> "Run"]
    /\ nops' = nops + 1
    /\ UNCHANGED <<memory, stopAt, run2At>>

\* the loop test of Run and, when it holds, one pass through the body
RunIteration ==
    /\ runAt = "loop"
    /\ \E r \in {IF cpu.running THEN RunStep(cpu, memory)
                 ELSE [cpu |-> cpu, outcome |-> "return"]} :
           /\ cpu' = r.cpu
           /\ runAt' = CASE r.outcome = "return" -> "done"
                         [] r.outcome = "panic"  -> "panic"
                         [] OTHER                -> "loop"
           /\ last' = [op |-> "RunIteration", outcome |-> r.outcome, pc |-> cpu.PC]
    /\ nops' = nops + 1
    /\ UNCHANGED <<memory, stopAt, run2At>>

\* go func() { cpu.Run() }(): the goroutine exists and has not run yet
GoRun ==
    /\ runAt = "idle"
    /\ runAt' = "enter"
    /\ last' = [op |-> "GoRun"]
    /\ nops' = nops + 1
    /\ UNCHANGED <<cpu, memory, stopAt, run2At>>

\* the first statement of Run: running.Load(), log.Fatal when it is true
RunCheck ==
    /\ runAt = "enter"
    /\ runAt' = IF cpu.running THEN "fatal" ELSE "store"
    /\ last' = [op |-> "RunCheck"]
    /\ nops' = nops + 1
    /\ UNCHANGED <<cpu, memory, stopAt, run2At>>

\* the second statement of Run: running.Store(true)
RunStoreTrue ==
    /\ runAt = "store"
    /\ cpu' = [cpu EXCEPT !.running = TRUE]
    /\ runAt' = "loop"
    /\ last' = [op |-> "RunStoreTrue"]
    /\ nops' = nops + 1
    /\ UNCHANGED <<memory, stopAt, run2At>>

(***************************************************************************)
(* SpecExec: a host sets registers and executes decoded instructions one   *)
(* at a time, as the repository's tests do                                 *)
(***************************************************************************)
\* calls per behaviour
MaxExecOps == 4

ExecRegNums == {0, 1, 7, 32}

ExecRegVals == {U32(\H3000, \H0003), U32(\HFFFF, \HFFFF)}

\* funct codes no case of RTypeInstruction.Execute handles and MIPS32 leaves unassigned
ReservedFuncts == {\H05, \H3F}

\* mtc0 $7, $12
WordMTC0Status == U32(\H4087, \H6000)

\* mfc0 $5, $12
WordMFC0Status == U32(\H4005, \H6000)

\* eret
WordERET == U32(\H4200, \H0018)

ExecWords ==
    {EncodeR(0, 1, 7, 0, 1, f) : f \in RdWriters}
    \cup {EncodeR(0, 1, 7, 3, 1, f) : f \in {OpCodeADDU, OpCodeJALR, OpCodeMTHI, OpCodeTEQ}}
    \cup {EncodeR(0, 1, 7, 3, 0, f) : f \in ReservedFuncts}
    \cup {WordMTC0Status, WordMFC0Status, WordERET,
          EncodeR(\H10, COP0Funct_MFC0, 0, cp0RegStatus, 0, 0),
          EncodeR(\H10, \H01, 5, cp0RegStatus, 0, 0),
          EncodeR(\H10, \H10, 0, 0, 0, \H3F),
          EncodeI(\H08, 1, 0, 5),
          EncodeJ(\H03, U32(0, \H10))}

ExecSetReg ==
    \E n \in ExecRegNums, v \in ExecRegVals : nops < MaxExecOps /\ DoSetReg(n, v)

ExecExecute ==
    \E w \in ExecWords : nops < MaxExecOps /\ DoExecute(w)

NextExec == ExecSetReg \/ ExecExecute

SpecExec == InitState /\ [][NextExec]_vars


(***************************************************************************)
(* Properties of SpecExec                                                  *)
(***************************************************************************)
\* Cause.ExcCode, Cause[6:2]
ExcCodeOf(c) == Lo(And32(Shr32(c.cause, 2), U32(0, \H1F)))

\* Status.EXL, Status.ERL, Status.IE as booleans
EXLOf(c) == And32(c.status, statusEXL) # Zero32

ERLOf(c) == And32(c.status, statusERL) # Zero32

IEOf(c) == And32(c.status, statusIE) # Zero32

\* Cause.BD as a boolean
BDOf(c) == And32(c.cause, causeBD) # Zero32

\* the step just taken executed instruction word(s) decoding to d
Executed(l) == l.op = "Execute"

\* C1: GPR[0] reads 0 in every reachable state, and a write to register 0
\* (SetReg(0, v), or an instruction whose destination register is 0, MFC0
\* with rt = 0 and JALR with rd = 0 included) changes no register.
C1_ZeroRegister ==
    /\ [](GetReg(cpu, 0) = Zero32)
    /\ [][/\ (last'.op = "SetReg" /\ last'.n = 0) => cpu' = cpu
          /\ (Executed(last')
              /\ LET d == DecodeInstruction(last'.instr)
                 IN  \/ (d.form = "R" /\ d.Funct \in RdWriters /\ d.Rd = 0)
                     \/ (d.form = "COP0" /\ d.Rs = COP0Funct_MFC0 /\ d.Rt = 0))
             => cpu'.registers = cpu.registers]_vars

\* C1 witness: MFC0 with rt = 0 has just read a non-zero Status, and GPR[0] is 0
C1_Witness ==
    /\ Executed(last)
    /\ last.instr = EncodeR(\H10, COP0Funct_MFC0, 0, cp0RegStatus, 0, 0)
    /\ cpu.cp0.status # Zero32
    /\ GetReg(cpu, 0) = Zero32

\* an encoding the executor has no case for and MIPS32 leaves unassigned
IsReservedEncoding(d) ==
    \/ (d.form = "R" /\ d.Funct \in ReservedFuncts)
    \/ (d.form = "COP0" /\ d.Rs \notin {COP0Funct_MFC0, COP0Funct_MTC0, \H10})
    \/ (d.form = "COP0" /\ d.Rs = \H10 /\ d.Funct \notin KnownCOFuncts)

\* C8: after a reserved encoding is executed, Cause.ExcCode = RI (10) and
\* Status.EXL = 1.
C8_ReservedRaisesRI ==
    (Executed(last) /\ IsReservedEncoding(DecodeInstruction(last.instr)))
        => (ExcCodeOf(cpu.cp0) = excRI /\ EXLOf(cpu.cp0))

\* C10: MTC0 with rd = 12, sel = 0 leaves Status equal to GPR[rt]; MFC0 with
\* rd = 12, sel = 0 and rt # 0 leaves GPR[rt] equal to Status; both return no
\* new PC and a false delay-slot flag.
C10_MoveStatus ==
    [][Executed(last') =>
        LET d == DecodeInstruction(last'.instr)
        IN  /\ (d.form = "COP0" /\ d.Rs = COP0Funct_MTC0 /\ d.Rd = 12 /\ d.Sel = 0)
               => /\ Read(cpu'.cp0, 12, 0) = GetReg(cpu, d.Rt)
                  /\ last'.nextPC = NilPC
                  /\ last'.delaySlot = FALSE
            /\ (d.form = "COP0" /\ d.Rs = COP0Funct_MFC0 /\ d.Rd = 12 /\ d.Sel = 0
                /\ d.Rt # 0)
               => /\ GetReg(cpu', d.Rt) = Read(cpu.cp0, 12, 0)
                  /\ last'.nextPC = NilPC
                  /\ last'.delaySlot = FALSE]_vars

\* C10 witness: mfc0 $5, $12 has copied the Status that mtc0 $7, $12 stored
C10_Witness ==
    /\ Executed(last)
    /\ last.instr = WordMFC0Status
    /\ cpu.cp0.status = U32(\H3000, \H0003)
    /\ GetReg(cpu, 7) = U32(\H3000, \H0003)
    /\ GetReg(cpu, 5) = U32(\H3000, \H0003)


(***************************************************************************)
(* SpecCP0: a host programs the exception registers, raises exceptions     *)
(* and returns from them, as TestCOP0ExceptionHandling does                *)
(***************************************************************************)
\* calls per behaviour
MaxCP0Ops == 5

CP0Writes ==
    {<<cp0RegStatus, 0, v>> : v \in {U32(0, 4), U32(0, 6), U32(0, 1)}}
    \cup {<<cp0RegCause, 0, v>> : v \in {U32(\H0080, 0)}}
    \cup {<<cp0RegPRId, 1, v>> : v \in {U32(\H8000, \H1000), U32(\HBFC0, 0),
                                        U32(\HBFBF, \HF000), U32(\H7FFF, \HF000)}}
    \cup {<<cp0RegErrorEPC, 0, v>> : v \in {U32(\H8000, \H0BAD)}}

\* 5-bit exception codes: Int, AdEL, Ov and the largest code
CP0ExcCodes == {excInt, excAdEL, excOv, 31}

CP0PCs == {Zero32, U32(\H8000, \H0010)}

CP0SetReg ==
    \E w \in CP0Writes : nops < MaxCP0Ops /\ DoSetCP0Reg(w[1], w[2], w[3])

CP0Raise ==
    \E code \in CP0ExcCodes, pc \in CP0PCs, d \in BOOLEAN :
        nops < MaxCP0Ops /\ DoRaiseException(code, pc, d)

CP0ERET == nops < MaxCP0Ops /\ DoERET

CP0Execute == nops < MaxCP0Ops /\ DoExecute(WordERET)

NextCP0 == CP0SetReg \/ CP0Raise \/ CP0ERET \/ CP0Execute

SpecCP0 == InitState /\ [][NextCP0]_vars

\* C3: right after RaiseException(code, pc, inDelay), whatever EXL was
\* before, Cause.ExcCode = code, Status.EXL = 1, Cause.BD = inDelay, and
\* EPC + 4 = pc (mod 2^32) when inDelay, EPC = pc otherwise.
C3_RaiseSetsCauseEPC ==
    last.op = "RaiseException" =>
        /\ ExcCodeOf(cpu.cp0) = last.excCode
        /\ EXLOf(cpu.cp0)
        /\ BDOf(cpu.cp0) = last.inDelaySlot
        /\ (last.inDelaySlot => Add32(cpu.cp0.epc, U32(0, 4)) = last.pc)
        /\ (~last.inDelaySlot => cpu.cp0.epc = last.pc)

\* C3 witness: an exception raised in a delay slot at pc = 0 while EXL was
\* already 1; EPC has wrapped to 0xFFFFFFFC
C3_Witness ==
    /\ last.op = "RaiseException"
    /\ And32(last.statusBefore, statusEXL) # Zero32
    /\ last.inDelaySlot
    /\ last.pc = Zero32
    /\ last.excCode = excOv
    /\ cpu.cp0.epc = U32(\HFFFF, \HFFFC)
    /\ BDOf(cpu.cp0)

\* EBase lies in [0x80000000, 0xBFC00000)
EBaseInRange(c) == Hi(c.ebase) >= \H8000 /\ Hi(c.ebase) < \HBFC0

\* C4: RaiseException returns base + offset; base is EBase when
\* 0x80000000 <= EBase < 0xBFC00000 and 0xBFC00000 otherwise; offset is 0x200
\* for Int with Cause.IV = 1 and 0x180 in every other case.
C4_VectorAddress ==
    last.op = "RaiseException" =>
        LET base   == IF EBaseInRange(cpu.cp0) THEN cpu.cp0.ebase ELSE U32(\HBFC0, 0)
            offset == IF last.excCode = 0 /\ Bit32(cpu.cp0.cause, 23) = 1
                      THEN U32(0, \H200) ELSE U32(0, \H180)
        IN  last.ret = Add32(base, offset)

\* C4 witness: Int raised with IV = 1 and EBase = 0x80001000 returns 0x80001200
C4_Witness ==
    /\ last.op = "RaiseException"
    /\ last.excCode = excInt
    /\ cpu.cp0.ebase = U32(\H8000, \H1000)
    /\ Bit32(cpu.cp0.cause, 23) = 1
    /\ last.ret = U32(\H8000, \H1200)

\* the step is an ERET, called directly or executed as the word 0x42000018
IsERET(l) == l.op = "ERET" \/ (Executed(l) /\ l.instr = WordERET)

\* the address the ERET of the step returned
ERETResult(l) == IF l.op = "ERET" THEN <<l.ret>> ELSE l.nextPC

\* C5: ERET clears Cause.BD; with Status.ERL = 1 it clears ERL, leaves EXL
\* as it was and returns ErrorEPC; with ERL = 0 it clears EXL and returns
\* EPC; executed as the word 0x42000018 the address is the new PC and the
\* delay-slot flag is false.
C5_ERET ==
    [][IsERET(last') =>
        /\ ~BDOf(cpu'.cp0)
        /\ (ERLOf(cpu.cp0) =>
                /\ ~ERLOf(cpu'.cp0)
                /\ EXLOf(cpu'.cp0) = EXLOf(cpu.cp0)
                /\ ERETResult(last') = <<cpu.cp0.errorepc>>)
        /\ (~ERLOf(cpu.cp0) =>
                /\ ~EXLOf(cpu'.cp0)
                /\ ~ERLOf(cpu'.cp0)
                /\ ERETResult(last') = <<cpu.cp0.epc>>)
        /\ (Executed(last') => last'.delaySlot = FALSE)]_vars

\* C5 witness: the word 0x42000018 executed with ERL = 1 and EXL = 1 has
\* returned ErrorEPC, cleared ERL and BD and left EXL set
C5_Witness ==
    /\ Executed(last)
    /\ last.instr = WordERET
    /\ last.nextPC = <<U32(\H8000, \H0BAD)>>
    /\ last.delaySlot = FALSE
    /\ EXLOf(cpu.cp0)
    /\ ~ERLOf(cpu.cp0)
    /\ ~BDOf(cpu.cp0)


(***************************************************************************)
(* SpecTLB: a host writes Random, Wired and the TLB staging registers,     *)
(* advances Random and the timer, and executes the TLB instructions        *)
(***************************************************************************)
\* calls per behaviour
MaxTLBOps == 6

\* tlbp, tlbr, tlbwi, tlbwr
WordTLBP == EncodeR(\H10, \H10, 0, 0, 0, COP0Funct_TLBP)

WordTLBR == EncodeR(\H10, \H10, 0, 0, 0, COP0Funct_TLBR)

WordTLBWI == EncodeR(\H10, \H10, 0, 0, 0, COP0Funct_TLBWI)

WordTLBWR == EncodeR(\H10, \H10, 0, 0, 0, COP0Funct_TLBWR)

TLBWrites ==
    {<<cp0RegRandom, 0, v>> : v \in {Zero32, U32(0, 3), U32(0, 16), U32(\HFFFF, \HFFFF)}}
    \cup {<<cp0RegWired, 0, v>> : v \in {U32(0, 3), U32(0, 15), U32(0, 16),
                                         U32(\HFFFF, \HFFC5)}}
    \cup {<<cp0RegIndex, 0, v>> : v \in {U32(0, 3)}}
    \cup {<<cp0RegEntryHi, 0, v>> : v \in {U32(0, \HA001)}}
    \cup {<<cp0RegCompare, 0, v>> : v \in {U32(0, 1)}}

TLBWords == {WordTLBP, WordTLBR, WordTLBWI, WordTLBWR, WordERET}

TLBSetReg ==
    \E w \in TLBWrites : nops < MaxTLBOps /\ DoSetCP0Reg(w[1], w[2], w[3])

TLBStep == nops < MaxTLBOps /\ DoStep

TLBTick == nops < MaxTLBOps /\ DoTick(U32(0, 1))

TLBExecute == \E w \in TLBWords : nops < MaxTLBOps /\ DoExecute(w)

TLBRaise == nops < MaxTLBOps /\ DoRaiseException(excOv, U32(0, 8), FALSE)

NextTLB == TLBSetReg \/ TLBStep \/ TLBTick \/ TLBExecute \/ TLBRaise

SpecTLB == InitState /\ [][NextTLB]_vars

\* C2: in every state reached from NewCOP0 by CP0 writes, Step, Tick, the
\* TLB instructions, RaiseException and ERET, Wired <= Random <= tlbSize - 1.
C2_RandomInWindow ==
    /\ Hi(cpu.cp0.wired) = 0
    /\ Hi(cpu.cp0.random) = 0
    /\ Lo(cpu.cp0.wired) <= Lo(cpu.cp0.random)
    /\ Lo(cpu.cp0.random) <= cpu.cp0.tlbSize - 1

\* C2 witness: with Wired = 15 and Random = 15, tlbwr has just written an
\* entry and stepped Random, which stays at 15
C2_Witness ==
    /\ Executed(last)
    /\ last.instr = WordTLBWR
    /\ cpu.cp0.wired = U32(0, 15)
    /\ cpu.cp0.random = U32(0, 15)
    /\ cpu.cp0.index = U32(0, 3)


(***************************************************************************)
(* SpecRW: a host writes every CP0 register and reads it back              *)
(***************************************************************************)
\* calls per behaviour
MaxRWOps == 3

\* the (reg, sel) pairs COP0.Read has a case for, and one it has none for
RWRegs ==
    {<<r, 0>> : r \in {cp0RegIndex, cp0RegRandom, cp0RegEntryLo0, cp0RegEntryLo1,
                       cp0RegContext, cp0RegPageMask, cp0RegWired, cp0RegBadVAddr,
                       cp0RegCount, cp0RegEntryHi, cp0RegCompare, cp0RegStatus,
                       cp0RegCause, cp0RegEPC, cp0RegPRId, cp0RegConfig,
                       cp0RegLLAddr, cp0RegWatchLo, cp0RegWatchHi, cp0RegXContext,
                       cp0RegErrorEPC, 7}}
    \cup {<<cp0RegPRId, 1>>, <<cp0RegConfig, 1>>}

RWVals == {U32(\HFFFF, \HFFFF), U32(\HA5A5, \HC305)}

RWSetReg ==
    \E rs \in RWRegs, v \in RWVals :
        nops < MaxRWOps /\ DoSetCP0Reg(rs[1], rs[2], v)

RWGetReg ==
    \E rs \in RWRegs : nops < MaxRWOps /\ DoGetCP0Reg(rs[1], rs[2])

RWTick == nops < MaxRWOps /\ DoTick(U32(0, 1))

NextRW == RWSetReg \/ RWGetReg \/ RWTick

SpecRW == InitState /\ [][NextRW]_vars

\* the writable bits of each register
WritableBits(reg, sel) ==
    CASE reg \in {cp0RegIndex, cp0RegWired} /\ sel = 0 -> U32(0, \H3F)
      [] reg \in {cp0RegEntryLo0, cp0RegEntryLo1} /\ sel = 0 -> U32(\H3FFF, \HFFFF)
      [] reg = cp0RegEntryHi /\ sel = 0 -> U32(\HFFFF, \HE0FF)
      [] reg = cp0RegPageMask /\ sel = 0 -> U32(\H01FF, \HE000)
      [] reg = cp0RegCause /\ sel = 0 -> U32(\H0080, \H0300)
      [] reg = cp0RegConfig /\ sel = 0 -> U32(0, 7)
      [] reg \in {cp0RegContext, cp0RegCount, cp0RegCompare, cp0RegStatus,
                  cp0RegEPC, cp0RegLLAddr, cp0RegWatchLo, cp0RegWatchHi,
                  cp0RegXContext, cp0RegErrorEPC} /\ sel = 0 -> U32(\HFFFF, \HFFFF)
      [] reg = cp0RegPRId /\ sel = 1 -> U32(\HFFFF, \HFFFF)
      [] OTHER -> Zero32

\* the value read back right after the write recorded in l
ReadBack(l) == GetCP0Reg(cpu, l.reg, l.sel)

\* C9 as stated: right after Write(reg, sel, v), Read(reg, sel) equals v on
\* the writable bits of the register, Index[5:0] and Wired[5:0] included.
C9_WriteReadIdentity ==
    last.op = "SetCP0Reg" =>
        And32(ReadBack(last), WritableBits(last.reg, last.sel))
            = And32(last.val, WritableBits(last.reg, last.sel))

\* v[5:0] held below tlbSize
ClampToTLB(v) ==
    IF BitAnd(Lo(v), \H3F) >= cpu.cp0.tlbSize
    THEN U32(0, cpu.cp0.tlbSize - 1) ELSE U32(0, BitAnd(Lo(v), \H3F))

\* C9 amended: right after Write(reg, sel, v), Read(reg, sel) equals v on the
\* writable bits of the register, except that Index[5:0] and Wired[5:0]
\* read back min(v[5:0], tlbSize - 1).
C9_WriteReadClamped ==
    last.op = "SetCP0Reg" =>
        IF last.reg \in {cp0RegIndex, cp0RegWired} /\ last.sel = 0
        THEN And32(ReadBack(last), U32(0, \H3F)) = ClampToTLB(last.val)
        ELSE And32(ReadBack(last), WritableBits(last.reg, last.sel))
                = And32(last.val, WritableBits(last.reg, last.sel))

\* C9 witness: Wired written with 0xFFFFFFFF reads back 15, and a Config0
\* write before it left K0 = 5
C9_Witness ==
    /\ last.op = "SetCP0Reg"
    /\ last.reg = cp0RegWired
    /\ last.val = U32(\HFFFF, \HFFFF)
    /\ ReadBack(last) = U32(0, 15)
    /\ And32(cpu.cp0.config0, U32(0, 7)) = U32(0, 5)


(***************************************************************************)
(* SpecDecode: instruction words are decoded, as the decode tests do       *)
(***************************************************************************)
\* words decoded per behaviour
MaxDecodeOps == 2

DecodeOps == {\H00, \H01, \H02, \H03, \H08, \H10, \H23, \H3F}

\* the upper half words: each op with several rs/rt patterns
DecodeHighs == {op * 1024 + x : op \in DecodeOps, x \in {0, \H12A, \H2A5, \H3FF}}

\* the lower half words: rd/shamt/funct, immediate and address patterns
DecodeLows == {\H0000, \H4020, \H0005, \H6001, \H8000, \HFFFF}

DecodeWords == {U32(h, l) : h \in DecodeHighs, l \in DecodeLows}

DecodeWord == \E w \in DecodeWords : nops < MaxDecodeOps /\ DoDecode(w)

NextDecode == DecodeWord

SpecDecode == InitState /\ [][NextDecode]_vars

\* the form the op field instr[31:26] selects
FormOfOp(op) ==
    CASE op = 16 -> "COP0"
      [] op = 0 -> "R"
      [] op \in {2, 3} -> "J"
      [] OTHER -> "I"

\* C7: DecodeInstruction yields a form for every word, chosen by op =
\* instr[31:26] alone (0x10 COP0, 0 R, 2 and 3 J, otherwise I); the fields
\* are the bit slices of the word, and re-assembling the fields of an R, I
\* or J form gives back the word.
C7_DecodeSlices ==
    last.op = "Decode" =>
        LET h == Hi(last.instr)
            l == Lo(last.instr)
            d == last.d
        IN  /\ d.form = FormOfOp(h \div 1024)
            /\ d.Opcode = h \div 1024
            /\ d.form = "R" =>
                /\ d.Rs = (h \div 32) % 32
                /\ d.Rt = h % 32
                /\ d.Rd = l \div 2048
                /\ d.Shamt = (l \div 64) % 32
                /\ d.Funct = l % 64
                /\ EncodeR(d.Opcode, d.Rs, d.Rt, d.Rd, d.Shamt, d.Funct) = last.instr
            /\ d.form = "I" =>
                /\ d.Rs = (h \div 32) % 32
                /\ d.Rt = h % 32
                /\ d.Immediate = l
                /\ EncodeI(d.Opcode, d.Rs, d.Rt, d.Immediate) = last.instr
            /\ d.form = "J" =>
                /\ d.Addr = U32(h % 1024, l)
                /\ EncodeJ(d.Opcode, d.Addr) = last.instr
            /\ d.form = "COP0" =>
                /\ d.Rs = (h \div 32) % 32
                /\ d.Rt = h % 32
                /\ d.Rd = l \div 2048
                /\ d.Sel = l % 8
                /\ d.Funct = l % 64

\* C7 witness: the word 0x012A4020 (add $t0, $t1, $t2) has been decoded as
\* R-type with rs = 9, rt = 10, rd = 8, shamt = 0, funct = 0x20
C7_Witness ==
    /\ last.op = "Decode"
    /\ last.instr = U32(\H012A, \H4020)
    /\ last.d = [form |-> "R", Opcode |-> 0, Rs |-> 9, Rt |-> 10, Rd |-> 8,
                 Shamt |-> 0, Funct |-> \H20]


(***************************************************************************)
(* SpecRun: a host prepares CP0, the registers and the program in memory,  *)
(* then calls Run; Stop may be called at any time                          *)
(***************************************************************************)
\* calls and loop iterations per behaviour
MaxRunOps == 8

RunWrites ==
    {<<cp0RegStatus, 0, v>> : v \in {U32(0, \HFF01), U32(0, \HFF03), U32(0, \HFF05),
                                     U32(0, \HFF00), U32(0, \H0001)}}
    \cup {<<cp0RegCause, 0, v>> : v \in {U32(0, \H0100)}}
    \cup {<<cp0RegCompare, 0, v>> : v \in {U32(0, 2)}}

RunProgramWords == {WordMTC0Status, WordERET}

RunSetCP0Reg ==
    \E w \in RunWrites :
        runAt = "idle" /\ nops < MaxRunOps /\ DoSetCP0Reg(w[1], w[2], w[3])

RunSetHWInterrupt ==
    runAt = "idle" /\ nops < MaxRunOps /\ DoSetHWInterrupt(2, TRUE)

RunSetReg ==
    runAt = "idle" /\ nops < MaxRunOps /\ DoSetReg(7, U32(0, \HFF01))

RunStoreWord ==
    \E a \in {Zero32, U32(0, 4)}, w \in RunProgramWords :
        runAt = "idle" /\ nops < MaxRunOps /\ DoStoreWord(a, w)

RunCall == nops < MaxRunOps /\ RunStart

RunLoop == nops < MaxRunOps /\ RunIteration

RunStop == runAt \in {"idle", "loop"} /\ nops < MaxRunOps /\ DoStop

NextRun ==
    \/ RunSetCP0Reg
    \/ RunSetHWInterrupt
    \/ RunSetReg
    \/ RunStoreWord
    \/ RunCall
    \/ RunLoop
    \/ RunStop

SpecRun == InitState /\ [][NextRun]_vars

\* some interrupt line is both pending in Cause.IP and enabled in Status.IM
IPAndIM(c) == \E k \in 0 .. 7 : Bit32(c.cause, 8 + k) = 1 /\ Bit32(c.status, 8 + k) = 1

\* C6: PendingInterrupt() is true exactly when IE = 1, EXL = 0, ERL = 0 and
\* Cause.IP AND Status.IM is non-zero; and an iteration of the loop of Run
\* raises Int only from a state with IE = 1, EXL = 0 and ERL = 0.
C6_PendingInterrupt ==
    /\ [](PendingInterrupt(cpu.cp0)
            <=> (IEOf(cpu.cp0) /\ ~EXLOf(cpu.cp0) /\ ~ERLOf(cpu.cp0) /\ IPAndIM(cpu.cp0)))
    /\ [][(last'.op = "RunIteration" /\ last'.outcome = "interrupt")
            => (IEOf(cpu.cp0) /\ ~EXLOf(cpu.cp0) /\ ~ERLOf(cpu.cp0))]_vars

\* C6 witness: with IE = 1, EXL = 1 and IP0 pending and enabled, the loop
\* has executed the instruction at PC 0 instead of raising Int
C6_Witness ==
    /\ last.op = "RunIteration"
    /\ last.outcome = "executed"
    /\ last.pc = Zero32
    /\ cpu.cp0.status = U32(0, \HFF03)
    /\ IPAndIM(cpu.cp0)
    /\ ~PendingInterrupt(cpu.cp0)
    /\ ExcCodeOf(cpu.cp0) = 0
    /\ cpu.PC = U32(0, 4)


(***************************************************************************)
(* SpecTLBRW: a host loads the TLB staging registers and Index, then       *)
(* executes tlbwi, tlbr and tlbp, as TestCOP0Integration does              *)
(***************************************************************************)
\* calls per behaviour
MaxTLBRWOps == 5

TLBRWWrites ==
    {<<cp0RegEntryHi, 0, v>> : v \in {U32(\H8000, \H0001), U32(\HFFFF, \HFFFF)}}
    \cup {<<cp0RegEntryLo0, 0, v>> : v \in {U32(0, 7), U32(0, \H1046), U32(0, 1)}}
    \cup {<<cp0RegEntryLo1, 0, v>> : v \in {U32(0, 7), U32(0, 2)}}
    \cup {<<cp0RegPageMask, 0, v>> : v \in {U32(0, \H6000)}}
    \cup {<<cp0RegIndex, 0, v>> : v \in {U32(0, 3), U32(0, \H3F)}}

TLBRWWords == {WordTLBWI, WordTLBR, WordTLBP}

TLBRWSetReg ==
    \E w \in TLBRWWrites : nops < MaxTLBRWOps /\ DoSetCP0Reg(w[1], w[2], w[3])

TLBRWExecute == \E w \in TLBRWWords : nops < MaxTLBRWOps /\ DoExecute(w)

NextTLBRW == TLBRWSetReg \/ TLBRWExecute

SpecTLBRW == InitState /\ [][NextTLBRW]_vars

\* Index.P, the probe-failure bit
IndexP(c) == Bit32(c.index, 31) = 1

\* the four staging registers of the TLB
TLBStaging(c) == <<c.entryHi, c.entryLo0, c.entryLo1, c.pageMask>>

\* the staging registers hold legal bits only
TLBStagingLegal(c) ==
    /\ And32(c.entryHi, U32(\HFFFF, \HE0FF)) = c.entryHi
    /\ And32(c.entryLo0, U32(\H3FFF, \HFFFF)) = c.entryLo0
    /\ And32(c.entryLo1, U32(\H3FFF, \HFFFF)) = c.entryLo1
    /\ And32(c.pageMask, U32(\H01FF, \HE000)) = c.pageMask

\* C11: with Index.P = 0 and legal staging registers, a tlbr executed right
\* after a tlbwi leaves EntryHi, EntryLo0, EntryLo1 and PageMask as they were
\* before the tlbwi (tlbwi itself does not change them).
C11_TLBRoundTrip ==
    [][(/\ Executed(last) /\ last.instr = WordTLBWI
        /\ Executed(last') /\ last'.instr = WordTLBR
        /\ ~IndexP(cpu.cp0)
        /\ TLBStagingLegal(cpu.cp0))
       => TLBStaging(cpu'.cp0) = TLBStaging(cpu.cp0)]_vars


(***************************************************************************)
(* SpecMem: a host stores and loads words at addresses inside, at the end  *)
(* of, beyond and far beyond the byte array                                *)
(***************************************************************************)
\* calls per behaviour
MaxMemOps == 3

MemAddrs ==
    {Zero32, U32(0, 1), U32(0, 2), U32(0, 4), U32(0, 8), U32(0, 12), U32(0, 16),
     U32(1, 0), U32(\HFFFF, \HFFF8), U32(\HFFFF, \HFFFC), U32(\HFFFF, \HFFFD)}

MemVals == {U32(\H1234, \H5678), U32(\H8000, \H0001), U32(\HFFFF, \HFFFF)}

MemStore ==
    \E a \in MemAddrs, v \in MemVals :
        runAt = "idle" /\ nops < MaxMemOps /\ DoStoreWord(a, v)

MemLoad ==
    \E a \in MemAddrs : runAt = "idle" /\ nops < MaxMemOps /\ DoLoadWord(a)

NextMem == MemStore \/ MemLoad

SpecMem == InitState /\ [][NextMem]_vars

\* the call recorded in l is a LoadWord or a StoreWord
IsMemCall(l) == l.op \in {"LoadWord", "StoreWord"}

\* addr is a multiple of 4
WordAligned(addr) == Lo(addr) % 4 = 0

\* the bytes addr .. addr+3 all lie inside the byte array of m
WordInside(m, addr) == Hi(addr) = 0 /\ Lo(addr) + 3 < Cardinality(DOMAIN m.Data)

\* C12: a LoadWord or StoreWord at an address that is not a multiple of 4,
\* or whose byte addr+3 lies beyond the end of the array (addresses near 2^32
\* included), returns ok = false, raises no run-time panic and leaves memory
\* as it was.
C12_RejectsBadAddress ==
    [][(IsMemCall(last')
        /\ ~(WordAligned(last'.address) /\ WordInside(memory, last'.address)))
       => (last'.ok = FALSE /\ last'.panic = FALSE /\ memory' = memory)]_vars

\* the four bytes of m at a, most significant first
BytesAt(m, a) == <<m.Data[a], m.Data[a + 1], m.Data[a + 2], m.Data[a + 3]>>

\* the four bytes of the word v, most significant first
BytesOf(v) == <<Hi(v) \div 256, Hi(v) % 256, Lo(v) \div 256, Lo(v) % 256>>

\* C13: a StoreWord(addr, v) at a word-aligned address whose four bytes lie
\* inside the array (the last word included) succeeds and leaves the bytes
\* of v at addr .. addr+3, most significant first; a LoadWord(addr) that
\* follows it returns (v, true).
C13_StoreLoadRoundTrip ==
    /\ []((last.op = "StoreWord" /\ WordAligned(last.address)
           /\ WordInside(memory, last.address))
          => (last.ok /\ ~last.panic
              /\ BytesAt(memory, Lo(last.address)) = BytesOf(last.value)))
    /\ [][(last.op = "StoreWord" /\ WordAligned(last.address)
           /\ WordInside(memory, last.address)
           /\ last'.op = "LoadWord" /\ last'.address = last.address)
          => (last'.ok /\ last'.word = last.value)]_vars


(***************************************************************************)
(* SpecArith: a host sets GPR 1 and 2 to values at the ends of the signed  *)
(* range and executes ADD and SUB                                          *)
(***************************************************************************)
\* calls per behaviour
MaxArithOps == 4

ArithRegVals ==
    {Zero32, U32(0, 1), U32(\H7FFF, \HFFFF), U32(\H8000, 0), U32(\HFFFF, \HFFFF)}

\* add $3, $1, $2
WordADD == EncodeR(0, 1, 2, 3, 0, OpCodeADD)

\* sub $3, $1, $2
WordSUB == EncodeR(0, 1, 2, 3, 0, OpCodeSUB)

ArithSetReg ==
    \E n \in {1, 2}, v \in ArithRegVals : nops < MaxArithOps /\ DoSetReg(n, v)

ArithExecute ==
    \E w \in {WordADD, WordSUB} : nops < MaxArithOps /\ DoExecute(w)

NextArith == ArithSetReg \/ ArithExecute

SpecArith == InitState /\ [][NextArith]_vars

\* the upper half of x as a signed number: int32(x) = SHi(x) * 2^16 + Lo(x)
SHi(x) == IF IsNeg32(x) THEN Hi(x) - H16 ELSE Hi(x)

\* the signed sum int32(a) + int32(b), as an integer, lies outside
\* [-2^31, 2^31 - 1]
SumOutOfRange(a, b) ==
    LET h == SHi(a) + SHi(b) + ((Lo(a) + Lo(b)) \div H16)
    IN  h < -32768 \/ h > 32767

\* the signed difference int32(a) - int32(b) lies outside [-2^31, 2^31 - 1]
DiffOutOfRange(a, b) ==
    LET h == SHi(a) - SHi(b) - (IF Lo(a) < Lo(b) THEN 1 ELSE 0)
    IN  h < -32768 \/ h > 32767

\* C14: ADD and SUB raise Ov (Cause.ExcCode = 12, Status.EXL = 1) and leave
\* GPR[rd] unchanged exactly when the signed sum or difference of GPR[rs] and
\* GPR[rt] lies outside [-2^31, 2^31 - 1]; otherwise they write the result
\* to GPR[rd] and raise nothing.
C14_OverflowExact ==
    [][(Executed(last') /\ last'.instr \in {WordADD, WordSUB})
       => LET a   == GetReg(cpu, 1)
              b   == GetReg(cpu, 2)
              add == last'.instr = WordADD
              out == IF add THEN SumOutOfRange(a, b) ELSE DiffOutOfRange(a, b)
          IN  IF out
              THEN /\ ExcCodeOf(cpu'.cp0) = excOv
                   /\ EXLOf(cpu'.cp0)
                   /\ GetReg(cpu', 3) = GetReg(cpu, 3)
              ELSE /\ GetReg(cpu', 3) = (IF add THEN Add32(a, b) ELSE Sub32(a, b))
                   /\ cpu'.cp0 = cpu.cp0]_vars


(***************************************************************************)
(* SpecLoop: a host sets registers and CP0, stores a short program of      *)
(* jumps, traps and an overflowing ADD, and calls Run                      *)
(***************************************************************************)
\* calls and loop iterations per behaviour
MaxLoopOps == 7

\* jr $1
WordJR == EncodeR(0, 1, 0, 0, 0, OpCodeJR)

\* jalr $31, $1
WordJALR == EncodeR(0, 1, 0, 31, 0, OpCodeJALR)

\* teq $0, $0
WordTEQ == EncodeR(0, 0, 0, 0, 0, OpCodeTEQ)

LoopProgramWords == {WordJR, WordJALR, WordTEQ, WordADD}

LoopRegWrites ==
    {<<1, U32(0, 8)>>, <<1, U32(0, \H100)>>, <<1, U32(\H7FFF, \HFFFF)>>,
     <<2, U32(0, 1)>>}

LoopCP0Writes == {<<cp0RegStatus, U32(0, \HFF01)>>, <<cp0RegCompare, U32(0, 2)>>}

LoopSetReg ==
    \E w \in LoopRegWrites :
        runAt = "idle" /\ nops < MaxLoopOps /\ DoSetReg(w[1], w[2])

LoopSetCP0Reg ==
    \E w \in LoopCP0Writes :
        runAt = "idle" /\ nops < MaxLoopOps /\ DoSetCP0Reg(w[1], 0, w[2])

LoopStoreWord ==
    \E a \in {Zero32, U32(0, 8)}, w \in LoopProgramWords :
        runAt = "idle" /\ nops < MaxLoopOps /\ DoStoreWord(a, w)

LoopCall == nops < MaxLoopOps /\ RunStart

LoopIterate == nops < MaxLoopOps /\ RunIteration

NextLoop ==
    \/ LoopSetReg
    \/ LoopSetCP0Reg
    \/ LoopStoreWord
    \/ LoopCall
    \/ LoopIterate

SpecLoop == InitState /\ [][NextLoop]_vars

\* no exception code
NoExc == 32

\* the exception code the handler of d raises on u, NoExc when it raises none
HandlerExc(d, u) ==
    LET rs == GetReg(u, d.Rs)
        rt == GetReg(u, d.Rt)
    IN  IF d.form # "R" THEN NoExc
        ELSE IF d.Funct = OpCodeADD /\ CheckAdditionOverflow(rs, rt, Add32(rs, rt))
        THEN excOv
        ELSE IF d.Funct = OpCodeSUB /\ CheckSubtractionOverflow(rs, rt, Sub32(rs, rt))
        THEN excOv
        ELSE IF d.Funct = OpCodeTEQ /\ rs = rt THEN excTr
        ELSE NoExc

\* the instruction the loop decodes when it fetches at pc from m
InstrAt(m, pc) == DecodeInstruction(LoadWord(m, pc).word)

\* u after the Tick and Step that precede the dispatch
Ticked(u) == [u EXCEPT !.cp0 = Step(Tick(u.cp0, U32(0, 1)))]

\* the step is an iteration of the loop with the given outcome
Iterated(l, outcome) == l.op = "RunIteration" /\ l.outcome = outcome

\* the exception code raised by the iteration that leads from u to a state
\* with record l, NoExc when it raised none
IterationExc(l, u, m) ==
    IF l.op # "RunIteration" THEN NoExc
    ELSE CASE l.outcome = "fetchFault" -> excAdEL
           [] l.outcome = "interrupt"  -> excInt
           [] l.outcome = "executed"   -> HandlerExc(InstrAt(m, u.PC), Ticked(u))
           [] OTHER                    -> NoExc

\* C15: when the instruction an iteration executes raises an exception from
\* its handler (ADD/SUB overflow, a trap whose comparison holds), PC at the
\* end of the iteration is the vector RaiseException returned.
C15_HandlerRaiseLeavesVector ==
    [][(Iterated(last', "executed")
        /\ HandlerExc(InstrAt(memory, cpu.PC), Ticked(cpu)) # NoExc)
       => LET u == Ticked(cpu)
              e == HandlerExc(InstrAt(memory, cpu.PC), u)
          IN  cpu'.PC = RaiseException(u.cp0, e, u.PC, u.inDelay).vec]_vars

\* C16: an iteration that raises an exception with a code other than Int or
\* Sys leaves running false, and the next pass through the loop test
\* returns without executing an instruction; an iteration that raises Int
\* leaves running true.
C16_FatalExceptionsStop ==
    [][/\ (IterationExc(last', cpu, memory) \notin {NoExc, excInt, excSys})
            => ~cpu'.running
       /\ (IterationExc(last', cpu, memory) \in {excInt, excSys})
            => cpu'.running
       /\ (last'.op = "RunIteration" /\ ~cpu.running)
            => last'.outcome = "return"]_vars

\* the instruction fetched at pc from m is a jump (JR, JALR)
IsJumpAt(m, pc) ==
    LET d == InstrAt(m, pc)
    IN  d.form = "R" /\ d.Funct \in {OpCodeJR, OpCodeJALR}

\* C17: after the loop has executed a jump (JR, JALR) at address A, the next
\* instruction it executes is the one at A + 4.
C17_DelaySlotExecutes ==
    [][(Iterated(last, "executed") /\ IsJumpAt(memory, last.pc)
        /\ Iterated(last', "executed"))
       => last'.pc = Add32(last.pc, U32(0, 4))]_vars

\* C18: in the loop, inDelay after an iteration that executed an instruction
\* is the delay-slot flag that instruction returned, and nothing changes it
\* until the next iteration; an iteration that raises an exception (fetch
\* fault, interrupt or handler-raised) records Cause.BD = inDelay and
\* EPC = PC - 4 when inDelay is true, BD = 0 and EPC = PC when it is false,
\* and leaves inDelay false.
C18_DelayFlagGovernsNext ==
    [][/\ (Iterated(last', "executed")
           /\ HandlerExc(InstrAt(memory, cpu.PC), Ticked(cpu)) = NoExc)
            => cpu'.inDelay
                 = Execute(InstrAt(memory, cpu.PC), Ticked(cpu)).delaySlot
       /\ (last'.op # "RunIteration" /\ runAt = "loop")
            => cpu'.inDelay = cpu.inDelay
       /\ (IterationExc(last', cpu, memory) # NoExc)
            => /\ BDOf(cpu'.cp0) = cpu.inDelay
               /\ cpu'.cp0.epc = IF cpu.inDelay THEN Sub32(cpu.PC, U32(0, 4))
                                 ELSE cpu.PC
               /\ ~cpu'.inDelay]_vars

\* C18 witness: a jump has sent the loop to an address outside memory; the
\* fetch fault of the next iteration has recorded BD = 1 and EPC = PC - 4
C18_Witness ==
    /\ Iterated(last, "fetchFault")
    /\ last.pc = U32(0, \H100)
    /\ BDOf(cpu.cp0)
    /\ cpu.cp0.epc = U32(0, \HFC)
    /\ ~cpu.inDelay


(***************************************************************************)
(* SpecStop: main stores a program, starts Run in a goroutine and, on a    *)
(* signal that may arrive at any moment after that, calls Stop             *)
(***************************************************************************)
\* steps of both threads per behaviour
MaxStopOps == 7

\* jr $0: a program that jumps to itself at address 0
WordJR0 == EncodeR(0, 0, 0, 0, 0, OpCodeJR)

StopProgramWords == {WordJR0, WordTEQ, WordADD, WordMTC0Status}

StopStoreWord ==
    \E a \in {Zero32, U32(0, 4)}, w \in StopProgramWords :
        runAt = "idle" /\ nops < MaxStopOps /\ DoStoreWord(a, w)

StopGoRun == nops < MaxStopOps /\ GoRun

StopRunCheck == nops < MaxStopOps /\ RunCheck

StopRunStoreTrue == nops < MaxStopOps /\ RunStoreTrue

StopRunLoop == nops < MaxStopOps /\ RunIteration

\* the signal arrives once, after the goroutine has been started
StopCall == runAt # "idle" /\ stopAt = "idle" /\ nops < MaxStopOps /\ DoStop

NextStop ==
    \/ StopStoreWord
    \/ StopGoRun
    \/ StopRunCheck
    \/ StopRunStoreTrue
    \/ StopRunLoop
    \/ StopCall

SpecStop == InitState /\ [][NextStop]_vars

\* C19: once a second thread has called Stop() on a CPU whose Run() has
\* been invoked, at whatever point of Run (before running.Store(true)
\* included), Run starts no further iteration: the next loop test it
\* makes fails and Run returns.
C19_StopEndsRun ==
    [][(stopAt = "done" /\ last'.op = "RunIteration")
       => (last'.outcome = "return" /\ runAt' = "done")]_vars


(***************************************************************************)
(* SpecJump: a host sets registers and executes J and JAL words            *)
(***************************************************************************)
\* calls per behaviour
MaxJumpOps == 4

\* j 0x10, the word 0x08000010
WordJ == EncodeJ(\H02, U32(0, \H10))

\* jal 0x10, the word 0x0C000010
WordJAL == EncodeJ(\H03, U32(0, \H10))

JumpWords ==
    {WordJ, WordJAL, EncodeJ(\H02, U32(\H03FF, \HFFFF)), EncodeJ(\H03, Zero32)}

JumpRegVals == {U32(0, 1), U32(\H8000, 0), U32(\HFFFF, \HFFFF)}

JumpSetReg ==
    \E n \in {1, 31}, v \in JumpRegVals : nops < MaxJumpOps /\ DoSetReg(n, v)

JumpExecute ==
    \E w \in JumpWords : nops < MaxJumpOps /\ DoExecute(w)

NextJump == JumpSetReg \/ JumpExecute

SpecJump == InitState /\ [][NextJump]_vars

\* ((pc + 4) AND 0xF0000000) OR (addr << 2)
JumpTarget(pc, addr) ==
    Or32(And32(Add32(pc, U32(0, 4)), U32(\HF000, 0)), Shl32(addr, 2))

\* C20: executing J or JAL at address PC returns the new PC
\* ((PC + 4) AND 0xF0000000) OR (addr << 2) with the delay-slot flag true,
\* and JAL writes PC + 8 to GPR[31]; the word 0x08000010 executed at PC = 0
\* gives next PC 0x00000040.
C20_JumpTarget ==
    [][(Executed(last') /\ DecodeInstruction(last'.instr).form = "J")
       => LET d == DecodeInstruction(last'.instr)
          IN  /\ last'.nextPC = SomePC(JumpTarget(cpu.PC, d.Addr))
              /\ last'.delaySlot
              /\ (d.Opcode = 3) => GetReg(cpu', 31) = Add32(cpu.PC, U32(0, 8))
              /\ (last'.instr = WordJ /\ cpu.PC = Zero32)
                    => last'.nextPC = SomePC(U32(0, \H40))]_vars


(***************************************************************************)
(* SpecFrame: a host sets registers and CP0, stores a trapping program,    *)
(* calls RaiseException itself, and calls Run                              *)
(***************************************************************************)
\* calls and loop iterations per behaviour
MaxFrameOps == 6

FrameRegWrites == {<<1, U32(\H7FFF, \HFFFF)>>, <<2, U32(0, 1)>>}

FrameCP0Writes == {<<cp0RegStatus, U32(0, \HFF01)>>, <<cp0RegCause, U32(0, \H0100)>>}

FrameSetReg ==
    \E w \in FrameRegWrites :
        runAt = "idle" /\ nops < MaxFrameOps /\ DoSetReg(w[1], w[2])

FrameSetCP0Reg ==
    \E w \in FrameCP0Writes :
        runAt = "idle" /\ nops < MaxFrameOps /\ DoSetCP0Reg(w[1], 0, w[2])

FrameStoreWord ==
    \E w \in {WordTEQ, WordADD} :
        runAt = "idle" /\ nops < MaxFrameOps /\ DoStoreWord(Zero32, w)

FrameRaise ==
    \E e \in {excAdEL, excOv}, d \in BOOLEAN :
        runAt = "idle" /\ nops < MaxFrameOps
        /\ DoRaiseException(e, U32(0, \H100), d)

FrameCall == nops < MaxFrameOps /\ RunStart

FrameIterate == nops < MaxFrameOps /\ RunIteration

NextFrame ==
    \/ FrameSetReg
    \/ FrameSetCP0Reg
    \/ FrameStoreWord
    \/ FrameRaise
    \/ FrameCall
    \/ FrameIterate

SpecFrame == InitState /\ [][NextFrame]_vars

\* x and y agree outside the bits of mask
SameOutside(x, y, mask) == AndNot32(x, mask) = AndNot32(y, mask)

\* the bits of Cause RaiseException writes: ExcCode [6:2] and BD
CauseExcBits == Or32(U32(0, \H7C), causeBD)

\* c and d agree on every CP0 register and bit other than Cause.ExcCode,
\* Cause.BD, EPC and Status.EXL, and on every TLB entry
SameButException(c, d) ==
    /\ [d EXCEPT !.cause = c.cause, !.epc = c.epc, !.status = c.status] = c
    /\ SameOutside(c.cause, d.cause, CauseExcBits)
    /\ SameOutside(c.status, d.status, statusEXL)

\* C21: an iteration of the loop that raises an exception (fetch AdEL,
\* interrupt, Ov from ADD/SUB, Tr from a trap) leaves the 32 GPRs, HI, LO,
\* memory and the TLB unchanged; a call of RaiseException changes only
\* Cause.ExcCode, Cause.BD, EPC and Status.EXL.
C21_ExceptionFrame ==
    [][/\ (IterationExc(last', cpu, memory) # NoExc)
            => /\ cpu'.registers = cpu.registers
               /\ cpu'.HI = cpu.HI
               /\ cpu'.LO = cpu.LO
               /\ memory' = memory
               /\ cpu'.cp0.tlb = cpu.cp0.tlb
       /\ (last'.op = "RaiseException")
            => /\ SameButException(cpu.cp0, cpu'.cp0)
               /\ [cpu' EXCEPT !.cp0 = cpu.cp0] = cpu
               /\ memory' = memory]_vars

\* C21 witness: with Status = 0xFF01 written before, RaiseException has set
\* EXL, recorded Ov and EPC = 0x100 - 4 with BD, and IE and IM are still set
C21_Witness ==
    /\ last.op = "RaiseException"
    /\ last.excCode = excOv
    /\ last.statusBefore = U32(0, \HFF01)
    /\ cpu.cp0.status = U32(0, \HFF03)
    /\ cpu.cp0.epc = U32(0, \HFC)
    /\ BDOf(cpu.cp0)


(***************************************************************************)
(* SpecAddu: the host of SpecArith executes the R-type words with funct    *)
(* 0x21 (the MIPS32 encoding of ADDU) and funct 0x28                       *)
(***************************************************************************)
\* addu $3, $1, $2 in the MIPS32 encoding, the word 0x00221821
WordADDU21 == EncodeR(0, 1, 2, 3, 0, \H21)

\* the word 0x00221828, whose funct is the value of OpCodeADDU
WordADDU28 == EncodeR(0, 1, 2, 3, 0, OpCodeADDU)

AdduExecute ==
    \E w \in {WordADDU21, WordADDU28} : nops < MaxArithOps /\ DoExecute(w)

NextAddu == ArithSetReg \/ AdduExecute

SpecAddu == InitState /\ [][NextAddu]_vars

\* C22: the R-type word with opcode 0 and funct 0x21 (ADDU) sets GPR[rd] to
\* (GPR[rs] + GPR[rt]) mod 2^32 and raises no exception.
C22_ADDUEncoding ==
    [][(Executed(last') /\ last'.instr = WordADDU21)
       => /\ GetReg(cpu', 3) = Add32(GetReg(cpu, 1), GetReg(cpu, 2))
          /\ cpu'.cp0 = cpu.cp0]_vars


(***************************************************************************)
(* SpecOverflow: the overflow predicates applied to operands at and near   *)
(* the ends of the signed range, with the wrapped result as ADD and SUB    *)
(* pass it                                                                 *)
(***************************************************************************)
\* calls per behaviour
MaxOverflowOps == 2

OverflowVals ==
    {Zero32, U32(0, 1), U32(\H7FFF, \HFFFE), U32(\H7FFF, \HFFFF), U32(\H8000, 0),
     U32(\H8000, 1), U32(\HFFFF, \HFFFE), U32(\HFFFF, \HFFFF)}

\* utils.CheckAdditionOverflow(a, b, a + b)
DoCheckAddition(a, b) ==
    /\ last' = [op |-> "CheckAdditionOverflow", a |-> a, b |-> b,
                ret |-> CheckAdditionOverflow(a, b, Add32(a, b))]
    /\ nops' = nops + 1
    /\ UNCHANGED <<cpu, memory, runAt, stopAt, run2At>>

\* utils.CheckSubtractionOverflow(a, b, a - b)
DoCheckSubtraction(a, b) ==
    /\ last' = [op |-> "CheckSubtractionOverflow", a |-> a, b |-> b,
                ret |-> CheckSubtractionOverflow(a, b, Sub32(a, b))]
    /\ nops' = nops + 1
    /\ UNCHANGED <<cpu, memory, runAt, stopAt, run2At>>

OverflowAdd ==
    \E a \in OverflowVals, b \in OverflowVals :
        nops < MaxOverflowOps /\ DoCheckAddition(a, b)

OverflowSub ==
    \E a \in OverflowVals, b \in OverflowVals :
        nops < MaxOverflowOps /\ DoCheckSubtraction(a, b)

NextOverflow == OverflowAdd \/ OverflowSub

SpecOverflow == InitState /\ [][NextOverflow]_vars

\* C23: CheckAdditionOverflow(a, b, a + b wrapped) is true exactly when a
\* and b have the same sign and the wrapped sum has the other sign;
\* CheckSubtractionOverflow(a, b, a - b wrapped) is true exactly when a and
\* b have opposite signs and the wrapped difference has a sign different
\* from a (zero counts as non-negative); each is true exactly when the
\* mathematical result does not fit in 32 signed bits.
C23_OverflowPredicates ==
    /\ (last.op = "CheckAdditionOverflow")
         => /\ last.ret = (/\ IsNeg32(last.a) = IsNeg32(last.b)
                           /\ IsNeg32(Add32(last.a, last.b)) # IsNeg32(last.a))
            /\ last.ret = SumOutOfRange(last.a, last.b)
    /\ (last.op = "CheckSubtractionOverflow")
         => /\ last.ret = (/\ IsNeg32(last.a) # IsNeg32(last.b)
                           /\ IsNeg32(Sub32(last.a, last.b)) # IsNeg32(last.a))
            /\ last.ret = DiffOutOfRange(last.a, last.b)


(***************************************************************************)
(* SpecTimer: a host writes Count and Compare and ticks the timer by       *)
(* zero, one or several cycles                                             *)
(***************************************************************************)
\* calls per behaviour
MaxTimerOps == 4

TimerWrites ==
    {<<cp0RegCompare, v>> : v \in {Zero32, U32(0, 2), U32(0, 5)}}
    \cup {<<cp0RegCount, v>> : v \in {U32(0, 4), U32(\HFFFF, \HFFFF)}}

TimerCycles == {Zero32, U32(0, 1), U32(0, 3)}

TimerSetReg ==
    \E w \in TimerWrites : nops < MaxTimerOps /\ DoSetCP0Reg(w[1], 0, w[2])

TimerTick == \E n \in TimerCycles : nops < MaxTimerOps /\ DoTick(n)

NextTimer == TimerSetReg \/ TimerTick

SpecTimer == InitState /\ [][NextTimer]_vars

\* Cause.TI and Cause.IP7
TimerBits == Or32(causeTI, Shl32(U32(0, 1), causeIPShift + 7))

\* C24: Tick(c) sets Count to (Count + c) mod 2^32; it sets Cause.TI and
\* Cause.IP7 exactly when Compare is not 0 and the new Count equals
\* Compare, and leaves Cause unchanged when the new Count differs from
\* Compare, also when the increment has stepped over Compare.
C24_Tick ==
    [][(last'.op = "Tick")
       => /\ cpu'.cp0.count = Add32(cpu.cp0.count, last'.cycles)
          /\ IF cpu.cp0.compare # Zero32 /\ cpu'.cp0.count = cpu.cp0.compare
             THEN cpu'.cp0.cause = Or32(cpu.cp0.cause, TimerBits)
             ELSE cpu'.cp0.cause = cpu.cp0.cause]_vars

\* C24 witness: Count was 0xFFFFFFFF, a Tick of 3 cycles has wrapped it to
\* 2 = Compare and raised TI and IP7
C24_Witness ==
    /\ last.op = "Tick"
    /\ last.cycles = U32(0, 3)
    /\ cpu.cp0.count = U32(0, 2)
    /\ cpu.cp0.compare = U32(0, 2)
    /\ And32(cpu.cp0.cause, TimerBits) = TimerBits


(***************************************************************************)
(* SpecWired: a host writes Wired and Random and steps Random              *)
(***************************************************************************)
\* calls per behaviour
MaxWiredOps == 5

WiredWrites ==
    {<<cp0RegWired, v>> : v \in {Zero32, U32(0, 3), U32(0, 14), U32(0, 16),
                                 U32(\HFFFF, \HFFC5)}}
    \cup {<<cp0RegRandom, v>> : v \in {U32(0, 3), U32(0, 4), U32(\HFFFF, \HFFFF)}}

WiredSetReg ==
    \E w \in WiredWrites : nops < MaxWiredOps /\ DoSetCP0Reg(w[1], 0, w[2])

WiredStep == nops < MaxWiredOps /\ DoStep

NextWired == WiredSetReg \/ WiredStep

SpecWired == InitState /\ [][NextWired]_vars

\* the call recorded in l is a write to Wired (reg 6, sel 0)
IsWiredWrite(l) == l.op = "SetCP0Reg" /\ l.reg = cp0RegWired /\ l.sel = 0

\* tlbSize - 1 as a word
RandomMax(c) == FromInt(c.tlbSize - 1)

\* C25 as stated: after any write to Wired, Random equals tlbSize-1 and
\* Wired equals the written value's low 6 bits clamped to tlbSize-1.
C25_WiredWriteResetsRandom ==
    [][IsWiredWrite(last')
       => /\ cpu'.cp0.wired = ClampToTLB(last'.val)
          /\ cpu'.cp0.random = RandomMax(cpu.cp0)]_vars

\* C25 amended: after any write to Wired, Wired equals the written value's
\* low 6 bits clamped to tlbSize-1; Random equals tlbSize-1 when the
\* previous Random was below the new Wired and keeps its previous value
\* otherwise.
C25_WiredWriteAdjustsRandom ==
    [][IsWiredWrite(last')
       => /\ cpu'.cp0.wired = ClampToTLB(last'.val)
          /\ cpu'.cp0.random = IF Lt32(cpu.cp0.random, cpu'.cp0.wired)
                               THEN RandomMax(cpu.cp0) ELSE cpu.cp0.random]_vars

\* C25 witness: Random was 3 when 3 was written to Wired, and is still 3
C25_Witness ==
    /\ IsWiredWrite(last)
    /\ last.val = U32(0, 3)
    /\ cpu.cp0.wired = U32(0, 3)
    /\ cpu.cp0.random = U32(0, 3)


\* C26: Step() lowers Random by exactly 1 when Random > Wired and sets
\* Random to tlbSize-1 when Random = Wired, leaving Wired as it is, so that
\* repeated Steps visit tlbSize-1, tlbSize-2, ..., Wired in descending
\* order and then wrap; from the reset state one Step strictly decreases
\* Random.
C26_StepCycles ==
    [][(last'.op = "Step")
       => /\ cpu'.cp0.wired = cpu.cp0.wired
          /\ Lt32(cpu.cp0.wired, cpu.cp0.random)
               => cpu'.cp0.random = Sub32(cpu.cp0.random, U32(0, 1))
          /\ (cpu.cp0.random = cpu.cp0.wired)
               => cpu'.cp0.random = RandomMax(cpu.cp0)
          /\ (cpu = NewCPU) => Lt32(cpu'.cp0.random, cpu.cp0.random)]_vars

\* C26 witness: with Wired = 14, a Step taken at Random = 14 has wrapped
\* Random to 15
C26_Witness ==
    /\ last.op = "Step"
    /\ cpu.cp0.wired = U32(0, 14)
    /\ cpu.cp0.random = U32(0, 15)


(***************************************************************************)
(* SpecProbe: a host stages entries with and without G, writes them at     *)
(* Index and probes with EntryHi values of the same and of another ASID    *)
(***************************************************************************)
\* calls per behaviour
MaxProbeOps == 7

ProbeWrites ==
    {<<cp0RegEntryHi, v>> : v \in {U32(0, \H2001), U32(0, \H2002)}}
    \cup {<<cp0RegEntryLo0, U32(0, 1)>>, <<cp0RegEntryLo1, U32(0, 1)>>,
          <<cp0RegIndex, U32(0, 3)>>}

ProbeSetReg ==
    \E w \in ProbeWrites : nops < MaxProbeOps /\ DoSetCP0Reg(w[1], 0, w[2])

ProbeExecute ==
    \E w \in {WordTLBWI, WordTLBP} : nops < MaxProbeOps /\ DoExecute(w)

NextProbe == ProbeSetReg \/ ProbeExecute

SpecProbe == InitState /\ [][NextProbe]_vars

\* EntryHi.VPN2 (bits 31..13) and EntryHi.ASID (bits 7..0) as numbers
VPN2Of(x) == <<Hi(x), Lo(x) \div 8192>>

ASIDOf(x) == Lo(x) % 256

\* the positions a probe of c may report
ProbeHits(c) ==
    {i \in 0 .. c.tlbSize - 1 :
        /\ VPN2Of(c.tlb[i].VPN2) = VPN2Of(c.entryHi)
        /\ (c.tlb[i].G \/ c.tlb[i].ASID = ASIDOf(c.entryHi))}

\* C27: TLBP sets Index to the lowest position whose entry has VPN2 equal
\* to EntryHi.VPN2 and either G set or ASID equal to EntryHi.ASID, with
\* P = 0, and to 0x80000000 when no entry matches; it changes nothing but
\* Index; and an entry's G becomes set only by a write made while both
\* EntryLo0.G and EntryLo1.G are 1.
C27_Probe ==
    [][/\ (Executed(last') /\ last'.instr = WordTLBP)
            => /\ [cpu' EXCEPT !.cp0.index = cpu.cp0.index] = cpu
               /\ memory' = memory
               /\ IF ProbeHits(cpu.cp0) = {}
                  THEN cpu'.cp0.index = U32(\H8000, 0)
                  ELSE /\ Hi(cpu'.cp0.index) = 0
                       /\ Lo(cpu'.cp0.index) \in ProbeHits(cpu.cp0)
                       /\ \A i \in ProbeHits(cpu.cp0) : Lo(cpu'.cp0.index) <= i
       /\ \A i \in 0 .. cpu.cp0.tlbSize - 1 :
            (cpu'.cp0.tlb[i].G /\ ~cpu.cp0.tlb[i].G)
               => (Bit32(cpu.cp0.entryLo0, 0) = 1 /\ Bit32(cpu.cp0.entryLo1, 0) = 1)]_vars

\* C27 witness: entry 3 was written with G for ASID 1; a probe for the same
\* VPN2 under ASID 2 has hit it
C27_Witness ==
    /\ Executed(last)
    /\ last.instr = WordTLBP
    /\ cpu.cp0.index = U32(0, 3)
    /\ cpu.cp0.tlb[3].G
    /\ cpu.cp0.tlb[3].ASID = 1
    /\ ASIDOf(cpu.cp0.entryHi) = 2


\* The probe-failure bit: Index and EntryHi writes around tlbp, tlbwi, tlbr.
MaxPBitOps == 5

PBitWrites ==
    {<<cp0RegEntryHi, 0, v>> : v \in {U32(\H8000, \H0001), Zero32}}
    \cup {<<cp0RegEntryLo0, 0, v>> : v \in {U32(0, 7)}}
    \cup {<<cp0RegIndex, 0, v>> : v \in {U32(0, 3), U32(0, \H3F)}}

PBitSetReg ==
    \E w \in PBitWrites : nops < MaxPBitOps /\ DoSetCP0Reg(w[1], w[2], w[3])

PBitExecute == \E w \in TLBRWWords : nops < MaxPBitOps /\ DoExecute(w)

NextPBit == PBitSetReg \/ PBitExecute

SpecPBit == InitState /\ [][NextPBit]_vars

\* C28: while Index.P = 1, TLBWI changes no TLB entry and TLBR changes none
\* of EntryHi, EntryLo0, EntryLo1, PageMask; a write to Index preserves P,
\* so P stays 1 through every step but a TLBP that hits.
C28_ProbeFailureHolds ==
    [][IndexP(cpu.cp0)
       => /\ (Executed(last') /\ last'.instr = WordTLBWI)
               => cpu'.cp0.tlb = cpu.cp0.tlb
          /\ (Executed(last') /\ last'.instr = WordTLBR)
               => TLBStaging(cpu'.cp0) = TLBStaging(cpu.cp0)
          /\ ~IndexP(cpu'.cp0)
               => /\ Executed(last')
                  /\ last'.instr = WordTLBP
                  /\ ProbeHits(cpu.cp0) # {}]_vars

\* C28 witness: after a probe miss Index was written with 3; a tlbwi made
\* with EntryHi = 0x80000001 staged has left entry 3 empty
C28_Witness ==
    /\ Executed(last)
    /\ last.instr = WordTLBWI
    /\ cpu.cp0.index = U32(\H8000, 3)
    /\ cpu.cp0.entryHi # Zero32
    /\ cpu.cp0.tlb[3] = ZeroTLBEntry


\* C29: TLBWR changes no TLB entry but the one at the index Random held
\* before the instruction, which is in Wired .. tlbSize - 1 and receives the
\* staged entry; afterwards Random is the Step of its previous value.
C29_TLBWR ==
    [][(Executed(last') /\ last'.instr = WordTLBWR)
       => /\ Hi(cpu.cp0.random) = 0
          /\ Lo(cpu.cp0.random) >= ToInt(cpu.cp0.wired)
          /\ Lo(cpu.cp0.random) <= cpu.cp0.tlbSize - 1
          /\ \A i \in 0 .. cpu.cp0.tlbSize - 1 :
                cpu'.cp0.tlb[i] = IF i = Lo(cpu.cp0.random)
                                  THEN DecodeTLBEntry(cpu.cp0)
                                  ELSE cpu.cp0.tlb[i]
          /\ cpu'.cp0.random = Step(cpu.cp0).random
          /\ cpu'.cp0.wired = cpu.cp0.wired]_vars

\* C29 witness: with Wired = Random = 3 a tlbwr has filled entry 3 from
\* EntryHi = 0xA001 and wrapped Random to 15, leaving entry 15 empty
C29_Witness ==
    /\ Executed(last)
    /\ last.instr = WordTLBWR
    /\ cpu.cp0.wired = U32(0, 3)
    /\ cpu.cp0.random = U32(0, 15)
    /\ cpu.cp0.tlb[3].VPN2 = U32(0, \HA000)
    /\ cpu.cp0.tlb[15] = ZeroTLBEntry


\* Fetch faults: Run on a 16-byte memory whose word 0 holds jr $1 or
\* teq $0, $0, with $1 pointing outside memory or at a misaligned address.
MaxFetchOps == 6

FetchRegWrites == {<<1, U32(\HFFFF, \HFFFC)>>, <<1, U32(0, \H000A)>>, <<1, U32(0, \H0100)>>}

FetchSetReg ==
    \E w \in FetchRegWrites :
        runAt = "idle" /\ nops < MaxFetchOps /\ DoSetReg(w[1], w[2])

FetchStoreWord ==
    \E w \in {WordJR, WordTEQ} :
        runAt = "idle" /\ nops < MaxFetchOps /\ DoStoreWord(Zero32, w)

FetchCall == nops < MaxFetchOps /\ RunStart

FetchIterate == nops < MaxFetchOps /\ RunIteration

NextFetch == FetchSetReg \/ FetchStoreWord \/ FetchCall \/ FetchIterate

SpecFetch == InitState /\ [][NextFetch]_vars

\* the loop is about to fetch at a PC that is misaligned or outside memory
FetchFails(u, m) == u.running /\ (~WordAligned(u.PC) \/ ~WordInside(m, u.PC))

\* what an iteration whose fetch failed at u leaves in v
FetchFaultFrame(u, v) ==
    /\ v.cp0.count = u.cp0.count
    /\ v.cp0.random = u.cp0.random
    /\ v.registers = u.registers
    /\ v.cp0.badVAddr = u.PC
    /\ ExcCodeOf(v.cp0) = excAdEL
    /\ v.cp0.epc = (IF u.inDelay THEN Sub32(u.PC, U32(0, 4)) ELSE u.PC)
    /\ BDOf(v.cp0) = u.inDelay
    /\ ~v.inDelay
    /\ v.PC = RaiseException(SetBadVAddr(u, u.PC).cp0, excAdEL, u.PC, u.inDelay).vec
    /\ ~v.running

\* C30: an iteration whose fetch at PC fails (PC misaligned or outside
\* memory) executes no instruction and does not advance Count or Random;
\* afterwards BadVAddr is the faulting PC, Cause.ExcCode is 4, EPC is the
\* faulting PC (minus 4 with BD = 1 if inDelay was set), inDelay is false, PC
\* is the vector RaiseException returned, and running is false.
C30_FetchFault ==
    [][(last'.op = "RunIteration" /\ runAt = "loop" /\ FetchFails(cpu, memory))
       => /\ Iterated(last', "fetchFault")
          /\ FetchFaultFrame(cpu, cpu')
          /\ memory' = memory]_vars


\* Interrupts in the loop: Run on a memory whose word 0 holds jr $0 or
\* add $3, $1, $2, with the timer armed by Compare and Status enabling IM.
MaxIntOps == 6

IntCP0Writes ==
    {<<cp0RegStatus, U32(0, \HFF01)>>, <<cp0RegStatus, U32(0, \HFF03)>>,
     <<cp0RegCompare, U32(0, 1)>>, <<cp0RegCompare, U32(0, 2)>>}

IntSetCP0Reg ==
    \E w \in IntCP0Writes :
        runAt = "idle" /\ nops < MaxIntOps /\ DoSetCP0Reg(w[1], 0, w[2])

IntStoreWord ==
    \E w \in {WordJR0, WordADD} :
        runAt = "idle" /\ nops < MaxIntOps /\ DoStoreWord(Zero32, w)

IntCall == nops < MaxIntOps /\ RunStart

IntIterate == nops < MaxIntOps /\ RunIteration

NextInt == IntSetCP0Reg \/ IntStoreWord \/ IntCall \/ IntIterate

SpecInt == InitState /\ [][NextInt]_vars

\* the fetch of the iteration that starts at u succeeds
FetchOK(u, m) == u.running /\ LoadWord(m, u.PC).ok

\* C31: in an iteration whose fetch succeeds, if an interrupt is pending
\* after Tick(1) and Step, the fetched instruction is not executed (GPR, HI,
\* LO and memory unchanged), EPC is its PC (minus 4 if inDelay), PC becomes
\* the Int vector, inDelay is cleared and Status.EXL = 1; while EXL = 1 no
\* iteration takes an interrupt.
C31_InterruptTaken ==
    [][(last'.op = "RunIteration" /\ FetchOK(cpu, memory))
       => /\ PendingInterrupt(Ticked(cpu).cp0) <=> Iterated(last', "interrupt")
          /\ EXLOf(cpu.cp0) => ~Iterated(last', "interrupt")
          /\ Iterated(last', "interrupt")
               => /\ cpu'.registers = cpu.registers
                  /\ cpu'.HI = cpu.HI
                  /\ cpu'.LO = cpu.LO
                  /\ memory' = memory
                  /\ cpu'.cp0.epc = (IF cpu.inDelay THEN Sub32(cpu.PC, U32(0, 4))
                                     ELSE cpu.PC)
                  /\ ExcCodeOf(cpu'.cp0) = excInt
                  /\ cpu'.PC = RaiseException(Ticked(cpu).cp0, excInt,
                                              cpu.PC, cpu.inDelay).vec
                  /\ cpu'.PC \in {U32(\H8000, \H0180), U32(\H8000, \H0200)}
                  /\ ~cpu'.inDelay
                  /\ EXLOf(cpu'.cp0)
                  /\ ~PendingInterrupt(cpu'.cp0)]_vars

\* C31 witness: the timer interrupt was taken in the delay slot of jr $0 at
\* PC 0, so EPC is 0 - 4 and BD is set
C31_Witness ==
    /\ Iterated(last, "interrupt")
    /\ last.pc = Zero32
    /\ cpu.cp0.epc = U32(\HFFFF, \HFFFC)
    /\ BDOf(cpu.cp0)
    /\ EXLOf(cpu.cp0)
    /\ cpu.PC = U32(\H8000, \H0180)
    /\ ~cpu.inDelay


\* Variable shifts: $1 holds the shift amount, $2 the value shifted.
MaxShiftOps == 3

\* sllv $3, $2, $1
WordSLLV == EncodeR(0, 1, 2, 3, 0, OpCodeSLLV)

\* srlv $3, $2, $1
WordSRLV == EncodeR(0, 1, 2, 3, 0, OpCodeSRLV)

\* srav $3, $2, $1
WordSRAV == EncodeR(0, 1, 2, 3, 0, OpCodeSRAV)

ShiftWords == {WordSLLV, WordSRLV, WordSRAV}

ShiftRegWrites ==
    {<<1, v>> : v \in {U32(0, 4), U32(0, 16), U32(0, 31), U32(0, 32),
                       U32(\HFFFF, \HFFFF)}}
    \cup {<<2, v>> : v \in {U32(0, 1), U32(\H8000, 1), U32(\HFFFF, 0)}}

ShiftSetReg ==
    \E w \in ShiftRegWrites : nops < MaxShiftOps /\ DoSetReg(w[1], w[2])

ShiftExecute == \E w \in ShiftWords : nops < MaxShiftOps /\ DoExecute(w)

NextShift == ShiftSetReg \/ ShiftExecute

SpecShift == InitState /\ [][NextShift]_vars

\* bit i of x shifted left by s
ShlBit(x, s, i) == IF i >= s THEN Bit32(x, i - s) ELSE 0

\* bit i of x shifted right by s, the vacated bits filled with fill
ShrBit(x, s, i, fill) == IF i + s <= 31 THEN Bit32(x, i + s) ELSE fill

\* C32: SLLV, SRLV and SRAV shift GPR[rt] by GPR[rs] AND 0x1F for every
\* value of GPR[rs]: SLLV writes (GPR[rt] << s) mod 2^32, SRLV the logical
\* and SRAV the arithmetic right shift by s.
C32_VariableShifts ==
    [][(Executed(last') /\ last'.instr \in ShiftWords)
       => LET s  == Lo(GetReg(cpu, 1)) % 32
              rt == GetReg(cpu, 2)
              rd == GetReg(cpu', 3)
          IN  \A i \in 0 .. 31 :
                 Bit32(rd, i) =
                    CASE last'.instr = WordSLLV -> ShlBit(rt, s, i)
                      [] last'.instr = WordSRLV -> ShrBit(rt, s, i, 0)
                      [] last'.instr = WordSRAV -> ShrBit(rt, s, i, Bit32(rt, 31))]_vars


\* SYSCALL, BREAK and SYNC in the loop: Run on a memory whose words 0 and 4
\* hold any of the three.
MaxSysOps == 5

\* syscall: SPECIAL, funct 0x0C
WordSYSCALL == EncodeR(0, 0, 0, 0, 0, \H0C)

\* break: SPECIAL, funct 0x0D
WordBREAK == EncodeR(0, 0, 0, 0, 0, \H0D)

\* sync: SPECIAL, funct 0x0F
WordSYNC == EncodeR(0, 0, 0, 0, 0, \H0F)

SysStoreWord ==
    \E a \in {Zero32, U32(0, 4)}, w \in {WordSYSCALL, WordBREAK, WordSYNC} :
        runAt = "idle" /\ nops < MaxSysOps /\ DoStoreWord(a, w)

SysCall == nops < MaxSysOps /\ RunStart

SysIterate == nops < MaxSysOps /\ RunIteration

NextSys == SysStoreWord \/ SysCall \/ SysIterate

SpecSys == InitState /\ [][NextSys]_vars

\* the step is an iteration that executed the word w fetched at PC
IteratedWord(l, u, m, w) == Iterated(l, "executed") /\ LoadWord(m, u.PC).word = w

\* C33: executing SYSCALL raises Sys (Cause.ExcCode = 8, Status.EXL = 1,
\* EPC = its PC) and leaves the CPU running; executing BREAK raises Bp
\* (ExcCode = 9); SYNC changes no state besides advancing PC by 4.
C33_SyscallBreakSync ==
    [][/\ IteratedWord(last', cpu, memory, WordSYSCALL)
            => /\ ExcCodeOf(cpu'.cp0) = excSys
               /\ EXLOf(cpu'.cp0)
               /\ cpu'.cp0.epc = cpu.PC
               /\ cpu'.running
       /\ IteratedWord(last', cpu, memory, WordBREAK)
            => /\ ExcCodeOf(cpu'.cp0) = excBp
               /\ EXLOf(cpu'.cp0)
       /\ IteratedWord(last', cpu, memory, WordSYNC)
            => /\ cpu' = [Ticked(cpu) EXCEPT !.PC = Add32(cpu.PC, U32(0, 4)),
                                             !.inDelay = FALSE]
               /\ memory' = memory]_vars


\* the (reg, sel) pairs whose writes COP0.Write drops: BadVAddr, PRId,
\* Config1, and 7 sel 0, which is no register of the data model
IgnoredRegs == {<<cp0RegBadVAddr, 0>>, <<cp0RegPRId, 0>>, <<cp0RegConfig, 1>>, <<7, 0>>}

\* the fields of Status: IE[0], EXL[1], ERL[2], IM[15:8]
StatusFields == U32(0, \HFF07)

\* C34: a software write to a CP0 register changes only the bits listed as
\* its fields: after Write(12, 0, v) the Status bits outside IE, EXL, ERL and
\* IM are unchanged; writes to BadVAddr, PRId, Config1 and to a (reg, sel)
\* outside the data model change no CP0 state, and such a (reg, sel) reads 0.
C34_WritesDiscarded ==
    [][last'.op = "SetCP0Reg"
       => /\ (last'.reg = cp0RegStatus /\ last'.sel = 0)
               => SameOutside(cpu'.cp0.status, cpu.cp0.status, StatusFields)
          /\ <<last'.reg, last'.sel>> \in IgnoredRegs => cpu'.cp0 = cpu.cp0
          /\ GetCP0Reg(cpu', 7, 0) = Zero32]_vars


\* The timer interrupt bits: Compare and Cause writes, Tick, the interrupt
\* setters, RaiseException and ERET.
MaxTIOps == 4

TIWrites ==
    {<<cp0RegCompare, U32(0, 1)>>, <<cp0RegCompare, Zero32>>,
     <<cp0RegCause, U32(\HFFFF, \HFFFF)>>, <<cp0RegCause, Zero32>>,
     <<cp0RegCount, Zero32>>}

TISetReg == \E w \in TIWrites : nops < MaxTIOps /\ DoSetCP0Reg(w[1], 0, w[2])

TITick == nops < MaxTIOps /\ DoTick(U32(0, 1))

TISetHW ==
    \E line \in {6, 7}, pending \in BOOLEAN :
        nops < MaxTIOps /\ DoSetHWInterrupt(line, pending)

TISetSW == \E pending \in BOOLEAN : nops < MaxTIOps /\ DoSetSWInterrupt(1, pending)

TIRaise == nops < MaxTIOps /\ DoRaiseException(excInt, Zero32, TRUE)

TIERET == nops < MaxTIOps /\ DoERET

NextTI == TISetReg \/ TITick \/ TISetHW \/ TISetSW \/ TIRaise \/ TIERET

SpecTI == InitState /\ [][NextTI]_vars

\* Cause.TI and Cause.IP7 as a pair of bits
TIPair(c) == <<Bit32(c.cause, 30), Bit32(c.cause, 15)>>

\* C35: Cause.TI equals Cause.IP7 in every reachable state: Tick sets both
\* together, a write to Compare clears both together, and no write to Cause,
\* no SetHWInterrupt/SetSWInterrupt call, no RaiseException and no ERET
\* changes either bit.
C35_TimerBitsAgree ==
    [][/\ TIPair(cpu.cp0) \in {<<0, 0>>, <<1, 1>>}
       /\ TIPair(cpu'.cp0) \in {<<0, 0>>, <<1, 1>>}
       /\ (last'.op = "SetCP0Reg" /\ last'.reg = cp0RegCompare)
            => TIPair(cpu'.cp0) = <<0, 0>>
       /\ (TIPair(cpu'.cp0) # TIPair(cpu.cp0))
            => IF TIPair(cpu.cp0) = <<0, 0>>
               THEN last'.op = "Tick"
               ELSE last'.op = "SetCP0Reg" /\ last'.reg = cp0RegCompare]_vars

\* C35 witness: with the timer interrupt asserted, SetHWInterrupt(7, false)
\* has left TI and IP7 set
C35_Witness ==
    /\ last.op = "SetHWInterrupt"
    /\ last.line = 7
    /\ ~last.pending
    /\ TIPair(cpu.cp0) = <<1, 1>>


\* Index[5:0]
IndexField(c) == BitAnd(Lo(c.index), \H3F)

\* C36: Index[5:0] < tlbSize in every reachable state, after any Index write
\* and any TLBP hit or miss, so TLBWI and TLBR with P = 0 write and read the
\* existing entry tlb[Index].
C36_IndexInsideTLB ==
    [][/\ IndexField(cpu.cp0) < cpu.cp0.tlbSize
       /\ IndexField(cpu'.cp0) < cpu'.cp0.tlbSize
       /\ IndexField(cpu.cp0) \in DOMAIN cpu.cp0.tlb
       /\ (Executed(last') /\ last'.instr = WordTLBWI /\ ~IndexP(cpu.cp0))
            => cpu'.cp0.tlb = [cpu.cp0.tlb EXCEPT ![IndexField(cpu.cp0)] =
                                                    DecodeTLBEntry(cpu.cp0)]
       /\ (Executed(last') /\ last'.instr = WordTLBR /\ ~IndexP(cpu.cp0))
            => LET e == cpu.cp0.tlb[IndexField(cpu.cp0)]
               IN  cpu'.cp0.entryHi = Or32(And32(e.VPN2, U32(\HFFFF, \HE000)),
                                           U32(0, e.ASID))]_vars

\* C36 witness: Index written with 0x3F holds 15, and a tlbwi has filled
\* entry 15 from EntryLo0 = 7
C36_Witness ==
    /\ Executed(last)
    /\ last.instr = WordTLBWI
    /\ cpu.cp0.index = U32(0, 15)
    /\ cpu.cp0.tlb[15].V0
    /\ cpu.cp0.tlb[0] = ZeroTLBEntry


\* the EBase NewCOP0 sets
ResetEBase == U32(\H8000, 0)

\* the offset of the vector: 0x200 for Int with Cause.IV = 1, else 0x180
VectorOffset(c, excCode) ==
    IF excCode = excInt /\ And32(c.cause, causeIV) # Zero32
    THEN U32(0, \H200) ELSE U32(0, \H180)

\* x lies in [0x80000000, 0xBFC00000)
InEBaseWindow(x) == Le32(U32(\H8000, 0), x) /\ Lt32(x, U32(\HBFC0, 0))

\* the step is a write to EBase
IsEBaseWrite(l) == l.op = "SetCP0Reg" /\ l.reg = cp0RegPRId /\ l.sel = 1

IEAndIM(status) == And32(status, U32(0, \HFF01))

\* C38: with Status.ERL = 0, RaiseException(code, pc, inDelay) followed at
\* once by ERET returns pc when inDelay is false and pc - 4 when it is true,
\* and leaves Status.EXL = 0 and Cause.BD = 0 with Status.IE and Status.IM as
\* they were before the raise.
C38_RaiseThenERET ==
    [][(last.op = "RaiseException" /\ IsERET(last') /\ ~ERLOf(cpu.cp0))
       => /\ ERETResult(last') = <<IF last.inDelaySlot
                                    THEN Sub32(last.pc, U32(0, 4)) ELSE last.pc>>
          /\ ~EXLOf(cpu'.cp0)
          /\ ~BDOf(cpu'.cp0)
          /\ IEAndIM(cpu'.cp0.status) = IEAndIM(last.statusBefore)]_vars

\* C38 witness: with IE = 1, an exception raised in the delay slot at pc = 0
\* and the ERET after it, which returned 0xFFFFFFFC
C38_Witness ==
    /\ IsERET(last)
    /\ ERETResult(last) = <<U32(\HFFFF, \HFFFC)>>
    /\ cpu.cp0.epc = U32(\HFFFF, \HFFFC)
    /\ cpu.cp0.status = U32(0, 1)
    /\ ~BDOf(cpu.cp0)
    /\ ExcCodeOf(cpu.cp0) = excOv


(***************************************************************************)
(* SpecRace: two goroutines call cpu.Run on the same CPU.  Each statement  *)
(* of the guard of Run is a step of its own; log.Fatal and a run-time      *)
(* panic end the process, and with it both goroutines.  The iterations of  *)
(* two goroutines that are both in the loop race on every field of the CPU *)
(* and are not followed further.                                           *)
(***************************************************************************)
MaxRaceOps == 10

\* the process has not been ended by log.Fatal or a panic
ProcessAlive == runAt \notin {"fatal", "panic"} /\ run2At \notin {"fatal", "panic"}

\* go func() { cpu.Run() }() for the second goroutine
Go2Run ==
    /\ run2At = "idle"
    /\ run2At' = "enter"
    /\ last' = [op |-> "Go2Run"]
    /\ nops' = nops + 1
    /\ UNCHANGED <<cpu, memory, runAt, stopAt>>

\* the first statement of Run in the second goroutine
Run2Check ==
    /\ run2At = "enter"
    /\ run2At' = IF cpu.running THEN "fatal" ELSE "store"
    /\ last' = [op |-> "Run2Check"]
    /\ nops' = nops + 1
    /\ UNCHANGED <<cpu, memory, runAt, stopAt>>

\* the second statement of Run in the second goroutine
Run2StoreTrue ==
    /\ run2At = "store"
    /\ cpu' = [cpu EXCEPT !.running = TRUE]
    /\ run2At' = "loop"
    /\ last' = [op |-> "Run2StoreTrue"]
    /\ nops' = nops + 1
    /\ UNCHANGED <<memory, runAt, stopAt>>

\* the loop test and one pass through the body in the second goroutine
Run2Iteration ==
    /\ run2At = "loop"
    /\ \E r \in {IF cpu.running THEN RunStep(cpu, memory)
                 ELSE [cpu |-> cpu, outcome |-> "return"]} :
           /\ cpu' = r.cpu
           /\ run2At' = CASE r.outcome = "return" -> "done"
                          [] r.outcome = "panic"  -> "panic"
                          [] OTHER                -> "loop"
           /\ last' = [op |-> "Run2Iteration", outcome |-> r.outcome, pc |-> cpu.PC]
    /\ nops' = nops + 1
    /\ UNCHANGED <<memory, runAt, stopAt>>

\* the program is stored before either goroutine is started
RaceStoreWord ==
    \E w \in {WordJR0, WordTEQ} :
        /\ runAt = "idle" /\ run2At = "idle"
        /\ nops < MaxRaceOps
        /\ DoStoreWord(Zero32, w)

RaceGo == ProcessAlive /\ nops < MaxRaceOps /\ GoRun

RaceCheck == ProcessAlive /\ nops < MaxRaceOps /\ RunCheck

RaceStore == ProcessAlive /\ nops < MaxRaceOps /\ RunStoreTrue

RaceIterate == ProcessAlive /\ run2At # "loop" /\ nops < MaxRaceOps /\ RunIteration

RaceGo2 == ProcessAlive /\ nops < MaxRaceOps /\ Go2Run

RaceCheck2 == ProcessAlive /\ nops < MaxRaceOps /\ Run2Check

RaceStore2 == ProcessAlive /\ nops < MaxRaceOps /\ Run2StoreTrue

RaceIterate2 == ProcessAlive /\ runAt # "loop" /\ nops < MaxRaceOps /\ Run2Iteration

NextRace ==
    \/ RaceStoreWord
    \/ RaceGo
    \/ RaceCheck
    \/ RaceStore
    \/ RaceIterate
    \/ RaceGo2
    \/ RaceCheck2
    \/ RaceStore2
    \/ RaceIterate2

SpecRace == InitState /\ [][NextRace]_vars

\* C39: when two threads call Run on the same CPU concurrently, at most one
\* of them is in the fetch-execute loop: the "already running" guard never
\* lets both pass.
C39_OneRunner == ~(runAt = "loop" /\ run2At = "loop")


\* C40: on a memory that ends below the exception vector, an iteration of
\* Run that raises an exception (Int included) leaves PC at the vector, so
\* that the next iteration is a failed fetch at the vector that raises AdEL
\* and leaves running false; an iteration whose fetch fails leaves running
\* false, so the loop ends.
C40_ExceptionEndsRun ==
    [][/\ (IterationExc(last', cpu, memory) \notin {NoExc, excAdEL} /\ cpu'.running)
            => LET u   == Ticked(cpu)
                   e   == IterationExc(last', cpu, memory)
                   vec == RaiseException(u.cp0, e, u.PC, u.inDelay).vec
                   nxt == RunStep(cpu', memory')
               IN  /\ cpu'.PC = vec
                   /\ nxt.outcome = "fetchFault"
                   /\ nxt.cpu.cp0.badVAddr = vec
                   /\ ExcCodeOf(nxt.cpu.cp0) = excAdEL
                   /\ ~nxt.cpu.running
       /\ Iterated(last', "fetchFault") => ~cpu'.running]_vars


=============================================================================
